---------------------------- MODULE Spec2Model ----------------------------
(***************************************************************************)
(* A model of three parts of the streaming runtime:                        *)
(*   - the stream-chunk compactor  (common/src/array/compact_chunk.rs)     *)
(*   - the DML executor            (stream/src/executor/dml.rs)            *)
(*   - the local barrier worker    (stream/src/task/barrier_manager.rs)    *)
(* Each part has its own specification (SpecCompactor, SpecDml,            *)
(* SpecBarrier); the variables of the other parts stay at their initial    *)
(* values.                                                                 *)
(***************************************************************************)
EXTENDS Integers, Sequences, FiniteSets, TLC

VARIABLES
    \* ---- compactor ----
    chunks,         \* StreamChunkCompactor.chunks: the input chunk sequence
    stream_key,     \* StreamChunkCompactor.stream_key: column indices
    compacted,      \* result of into_compacted_chunks (NotRun / Panic / chunks)
    reconstructed,  \* result of reconstructed_compacted_chunks
    recompacted,    \* result of into_compacted_chunks on `compacted`
    \* ---- DML executor ----
    upstream,       \* messages available on the upstream side (L)
    batch_reader,   \* TxnMsgs available on the DML side (R)
    dml,            \* the executor's state: paused, active_txn_map, batch_group,
                    \* builder, out (the items yielded so far), yielding and
                    \* after (where a suspended turn stands), panicked, ended
    writers,        \* per transaction id: "idle", "open", "closed" or "reopened" at the writer
    dml_sent,       \* how many messages each side has been given
    committed,      \* the transaction ids whose End was processed, in order
    rolled_back,    \* per transaction id: whether its Rollback was processed, and in which mode
    \* ---- local barrier worker ----
    worker,             \* LocalBarrierWorker's fields, and where it stands in run
    responses,          \* per control stream: what was sent on its response sender
    requests,           \* the requests waiting on the current control stream
    actor_op_rx,        \* LocalActorOperations waiting
    barrier_event_rx,   \* LocalBarrierEvents waiting
    actor_failure_rx,   \* actor failures waiting
    actors,             \* per actor: its task's state and the barriers it has to report
    meta,               \* the meta service: streams opened, next epoch to inject
    \* compaction scheduler (meta/src/hummock/compaction_scheduler.rs)
    sched_rx,           \* the groups waiting in the channel of compaction requests
    scheduled,          \* DefaultCompactionSchedulerChannel.scheduled
    sched_loop,         \* where CompactionScheduler::start stands, and its group
    sched_log           \* tasks sent per group; the last status and reschedule result

barrierVars == <<worker, responses, requests, actor_op_rx, barrier_event_rx,
                actor_failure_rx, actors, meta>>
compactorVars == <<chunks, stream_key, compacted, reconstructed, recompacted>>
dmlVars == <<upstream, batch_reader, dml, writers, dml_sent, committed, rolled_back>>

schedVars == <<sched_rx, scheduled, sched_loop, sched_log>>

vars == <<compactorVars, dmlVars, barrierVars, schedVars>>

--------------------------------------------------------------------------
(* Generic helpers *)

SeqsUpTo(S, n) == UNION {[1..m -> S] : m \in 0..n}

RECURSIVE SumSeq(_)
SumSeq(s) == IF s = <<>> THEN 0 ELSE Head(s) + SumSeq(Tail(s))

RECURSIVE Flatten(_)
Flatten(ss) == IF ss = <<>> THEN <<>> ELSE Head(ss) \o Flatten(Tail(ss))

SelectSeqIdx(s, Test(_)) ==
    LET F[i \in 0..Len(s)] ==
            IF i = 0 THEN <<>>
            ELSE IF Test(s[i]) THEN Append(F[i-1], s[i]) ELSE F[i-1]
    IN F[Len(s)]

Range(s) == {s[i] : i \in DOMAIN s}

Perms(S) == {p \in [1..Cardinality(S) -> S] : Range(p) = S}

--------------------------------------------------------------------------
(* ======================= Stream-chunk compactor ======================= *)

\* Bound of the compactor inputs: total number of records over the chunks.
MaxRows == 3

\* Rows have two columns, each holding 1 or 2.
Rows == [1..2 -> 1..2]
\* One record of a chunk: its op ("+", "-", "U+", "U-"), its row and its
\* visibility bit. The inputs hold every visible Insert and Delete, one
\* update pair and one invisible record.
InputRecords ==
    [op : {"+", "-"}, row : Rows, vis : {TRUE}]
    \cup {[op |-> "U-", row |-> <<1, 1>>, vis |-> TRUE],
          [op |-> "U+", row |-> <<1, 2>>, vis |-> TRUE],
          [op |-> "+", row |-> <<1, 1>>, vis |-> FALSE]}
StreamKeys == {<<1>>, <<1, 2>>}
ReconChunkSizes == {2}

\* Option::None of a reference to a record (a position).
None == <<0, 0>>

\* The outcome of a compaction: not run yet, aborted by panic!, or the chunks.
NotRun == [tag |-> "NotRun", chunks |-> <<>>]
Panic == [tag |-> "Panic", chunks |-> <<>>]
Ok(cs) == [tag |-> "Ok", chunks |-> cs]

\* Op::normalize_update
NormalizeUpdate(op) ==
    CASE op = "U+" -> "+"
      [] op = "U-" -> "-"
      [] OTHER -> op

\* row.project(&key_indices)
Project(row, key) == [i \in 1..Len(key) |-> row[key[i]]]

\* Every (chunk index, row index) of a chunk sequence, in iteration order.
RECURSIVE PositionsFrom(_, _)
PositionsFrom(cs, ci) ==
    IF ci > Len(cs) THEN <<>>
    ELSE [ri \in 1..Len(cs[ci]) |-> <<ci, ri>>] \o PositionsFrom(cs, ci + 1)

Positions(cs) == PositionsFrom(cs, 1)

RecAt(cs, pos) == cs[pos[1]][pos[2]]
SetOp(cs, pos, op) == [cs EXCEPT ![pos[1]][pos[2]].op = op]
SetVis(cs, pos, b) == [cs EXCEPT ![pos[1]][pos[2]].vis = b]

\* The visible records of a chunk sequence, in order (what rows() iterates).
VisibleRecords(cs) == SelectSeqIdx(Flatten(cs), LAMBDA r : r.vis)

\* StreamChunk::cardinality summed over the chunks.
Cardinality_(cs) == Len(VisibleRecords(cs))

AllKeys(cs, key) == {Project(r.row, key) : r \in Range(Flatten(cs))}


NoTuple == [previous |-> None, latest |-> None]

PushResult(cs, tuple, remove, panic) ==
    [cs |-> cs, tuple |-> tuple, remove |-> remove, panic |-> panic]

\* Variant of Push that leaves an Insert and the Delete that cancels it visible.
PushNoHide(cs, tuple, pos) ==
    LET latestOp == RecAt(cs, tuple.latest).op
        newOp == RecAt(cs, pos).op
    IN CASE latestOp = "+" /\ newOp = "+" -> PushResult(cs, tuple, FALSE, TRUE)
         [] latestOp = "-" /\ newOp = "-" -> PushResult(cs, tuple, FALSE, TRUE)
         [] latestOp = "+" /\ newOp = "-" ->
                IF tuple.previous # None
                THEN PushResult(cs, [previous |-> None, latest |-> tuple.previous],
                                FALSE, FALSE)
                ELSE PushResult(cs, tuple, TRUE, FALSE)
         [] latestOp = "-" /\ newOp = "+" ->
                PushResult(cs, [previous |-> tuple.latest, latest |-> pos], FALSE, FALSE)
         [] OTHER -> PushResult(cs, tuple, FALSE, TRUE)

\* OpRowMutRefTuple::push: merges the record at `pos` into the tuple of its key.
\* remove = TRUE is the method's `true` result ("no row left").
Push(cs, tuple, pos) ==
    LET latestOp == RecAt(cs, tuple.latest).op
        newOp == RecAt(cs, pos).op
    IN CASE latestOp = "+" /\ newOp = "+" -> PushResult(cs, tuple, FALSE, TRUE)
         [] latestOp = "-" /\ newOp = "-" -> PushResult(cs, tuple, FALSE, TRUE)
         [] latestOp = "+" /\ newOp = "-" ->
                LET cs1 == SetVis(SetVis(cs, tuple.latest, FALSE), pos, FALSE)
                IN IF tuple.previous # None
                   THEN PushResult(cs1, [previous |-> None, latest |-> tuple.previous],
                                   FALSE, FALSE)
                   ELSE PushResult(cs1, tuple, TRUE, FALSE)
         [] latestOp = "-" /\ newOp = "+" ->
                PushResult(cs, [previous |-> tuple.latest, latest |-> pos], FALSE, FALSE)
         \* unreachable!(): an op that was not normalized
         [] OTHER -> PushResult(cs, tuple, FALSE, TRUE)

\* Variant of the per-record step that leaves the op as it is.
CompactRowNoNormalize(st, key, pos) ==
    IF st.panic \/ ~RecAt(st.cs, pos).vis THEN st
    ELSE LET cs1 == st.cs
             k == Project(RecAt(cs1, pos).row, key)
         IN IF st.map[k] = NoTuple
            THEN [cs |-> cs1,
                  map |-> [st.map EXCEPT ![k] = [previous |-> None, latest |-> pos]],
                  panic |-> FALSE]
            ELSE LET r == Push(cs1, st.map[k], pos)
                 IN [cs |-> r.cs,
                     map |-> [st.map EXCEPT ![k] = IF r.remove THEN NoTuple ELSE r.tuple],
                     panic |-> r.panic]

\* The body of the loop over to_rows_mut() in into_compacted_chunks: invisible
\* rows are not iterated; the op is normalized, then the record is entered in
\* op_row_map (Vacant) or pushed onto its key's tuple (Occupied).
CompactRow(st, key, pos) ==
    IF st.panic \/ ~RecAt(st.cs, pos).vis THEN st
    ELSE LET cs1 == SetOp(st.cs, pos, NormalizeUpdate(RecAt(st.cs, pos).op))
             k == Project(RecAt(cs1, pos).row, key)
         IN IF st.map[k] = NoTuple
            THEN [cs |-> cs1,
                  map |-> [st.map EXCEPT ![k] = [previous |-> None, latest |-> pos]],
                  panic |-> FALSE]
            ELSE LET r == Push(cs1, st.map[k], pos)
                 IN [cs |-> r.cs,
                     map |-> [st.map EXCEPT ![k] = IF r.remove THEN NoTuple ELSE r.tuple],
                     panic |-> r.panic]

RECURSIVE CompactRows(_, _, _)
CompactRows(st, key, ps) ==
    IF ps = <<>> THEN st
    ELSE CompactRows(CompactRow(st, key, Head(ps)), key, Tail(ps))

\* Variant of the final pass that compares the stream keys instead of the rows.
MarkUpdateByKey(cs, key, tuple) ==
    IF tuple.previous = None THEN cs
    ELSE IF Project(RecAt(cs, tuple.previous).row, key)
              = Project(RecAt(cs, tuple.latest).row, key)
         THEN SetVis(SetVis(cs, tuple.previous, FALSE), tuple.latest, FALSE)
         ELSE cs

\* Variant of the final pass that re-tags a pair at consecutive indices without
\* asking whether the two records lie in the same chunk.
MarkUpdateAnyChunk(cs, key, tuple) ==
    IF tuple.previous = None THEN cs
    ELSE LET prev == tuple.previous
             latest == tuple.latest
         IN IF RecAt(cs, prev).row = RecAt(cs, latest).row
            THEN SetVis(SetVis(cs, prev, FALSE), latest, FALSE)
            ELSE IF prev[2] + 1 = latest[2]
                 THEN SetOp(SetOp(cs, prev, "U-"), latest, "U+")
                 ELSE cs

\* Variant of the final pass that hides a no-op update only when its two
\* records lie in one chunk.
MarkUpdateNoOpSameChunk(cs, key, tuple) ==
    IF tuple.previous = None THEN cs
    ELSE LET prev == tuple.previous
             latest == tuple.latest
         IN IF prev[1] = latest[1] /\ RecAt(cs, prev).row = RecAt(cs, latest).row
            THEN SetVis(SetVis(cs, prev, FALSE), latest, FALSE)
            ELSE IF prev[1] = latest[1] /\ prev[2] + 1 = latest[2]
                 THEN SetOp(SetOp(cs, prev, "U-"), latest, "U+")
                 ELSE cs

\* as_update_op and the body of the loop over op_row_map.values_mut(): a no-op
\* update is hidden, an update at adjacent indices of one chunk is re-tagged.
MarkUpdate(cs, key, tuple) ==
    IF tuple.previous = None THEN cs
    ELSE LET prev == tuple.previous
             latest == tuple.latest
         IN IF RecAt(cs, prev).row = RecAt(cs, latest).row
            THEN SetVis(SetVis(cs, prev, FALSE), latest, FALSE)
            ELSE IF prev[1] = latest[1] /\ prev[2] + 1 = latest[2]
                 THEN SetOp(SetOp(cs, prev, "U-"), latest, "U+")
                 ELSE cs

RECURSIVE MarkUpdates(_, _, _, _)
MarkUpdates(cs, key, map, ks) ==
    IF ks = {} THEN cs
    ELSE LET k == CHOOSE x \in ks : TRUE
         IN MarkUpdates(MarkUpdate(cs, key, map[k]), key, map, ks \ {k})

\* Variant of IntoCompactedChunks that returns the chunks without their hidden rows.
IntoCompactedChunksDropHidden(cs, key) ==
    LET st0 == [cs |-> cs, map |-> [k \in AllKeys(cs, key) |-> NoTuple], panic |-> FALSE]
        st == CompactRows(st0, key, Positions(cs))
        out == MarkUpdates(st.cs, key, st.map, {k \in DOMAIN st.map : st.map[k] # NoTuple})
    IN IF st.panic THEN Panic
       ELSE Ok([ci \in DOMAIN out |-> SelectSeqIdx(out[ci], LAMBDA r : r.vis)])

\* StreamChunkCompactor::into_compacted_chunks
IntoCompactedChunks(cs, key) ==
    LET st0 == [cs |-> cs, map |-> [k \in AllKeys(cs, key) |-> NoTuple], panic |-> FALSE]
        st == CompactRows(st0, key, Positions(cs))
    IN IF st.panic THEN Panic
       ELSE Ok(MarkUpdates(st.cs, key, st.map,
                           {k \in DOMAIN st.map : st.map[k] # NoTuple}))


--------------------------------------------------------------------------
(* Reconstruct mode *)

NoRow == <<>>
Vacant == [kind |-> "Vacant", old |-> NoRow, new |-> NoRow]
RowOpInsert(v) == [kind |-> "Insert", old |-> NoRow, new |-> v]
RowOpDelete(v) == [kind |-> "Delete", old |-> v, new |-> NoRow]
RowOpUpdate(old, new) == [kind |-> "Update", old |-> old, new |-> new]

\* Variant of RowOpMap::insert in which a double insert keeps the stored row.
RowOpMapInsertKeepsStored(map, k, v) ==
    LET e == map[k]
    IN CASE e.kind = "Vacant" -> [map EXCEPT ![k] = RowOpInsert(v)]
         [] e.kind = "Delete" -> [map EXCEPT ![k] = RowOpUpdate(e.old, v)]
         [] e.kind = "Insert" -> map
         [] e.kind = "Update" -> map

\* RowOpMap::insert
RowOpMapInsert(map, k, v) ==
    LET e == map[k]
    IN CASE e.kind = "Vacant" -> [map EXCEPT ![k] = RowOpInsert(v)]
         [] e.kind = "Delete" -> [map EXCEPT ![k] = RowOpUpdate(e.old, v)]
         \* "double insert for the same pk"
         [] e.kind = "Insert" -> [map EXCEPT ![k] = RowOpInsert(v)]
         [] e.kind = "Update" -> [map EXCEPT ![k] = RowOpUpdate(e.old, v)]

\* Variant of RowOpMap::delete in which the Delete of an inserted row stays
\* in the map instead of removing the entry.
RowOpMapDeleteKeepsEntry(map, k, v) ==
    LET e == map[k]
    IN CASE e.kind = "Vacant" -> [map EXCEPT ![k] = RowOpDelete(v)]
         [] e.kind = "Insert" -> [map EXCEPT ![k] = RowOpDelete(v)]
         [] e.kind = "Update" -> [map EXCEPT ![k] = RowOpDelete(e.old)]
         [] e.kind = "Delete" -> [map EXCEPT ![k] = RowOpDelete(v)]

\* RowOpMap::delete
RowOpMapDelete(map, k, v) ==
    LET e == map[k]
    IN CASE e.kind = "Vacant" -> [map EXCEPT ![k] = RowOpDelete(v)]
         [] e.kind = "Insert" -> [map EXCEPT ![k] = Vacant]
         [] e.kind = "Update" -> [map EXCEPT ![k] = RowOpDelete(e.old)]
         \* "double delete for the same pk"
         [] e.kind = "Delete" -> [map EXCEPT ![k] = RowOpDelete(v)]

\* Variant of the reconstruct loop that reads every row, visible or not.
ReconstructRowAll(map, key, rec) ==
    LET k == Project(rec.row, key)
    IN IF rec.op \in {"+", "U+"} THEN RowOpMapInsert(map, k, rec.row)
       ELSE RowOpMapDelete(map, k, rec.row)

\* The body of the loop over c.rows() in reconstructed_compacted_chunks;
\* rows() yields the visible rows only.
ReconstructRow(map, key, rec) ==
    IF ~rec.vis THEN map
    ELSE LET k == Project(rec.row, key)
         IN IF rec.op \in {"+", "U+"} THEN RowOpMapInsert(map, k, rec.row)
            ELSE RowOpMapDelete(map, k, rec.row)

RECURSIVE ReconstructRows(_, _, _)
ReconstructRows(map, key, recs) ==
    IF recs = <<>> THEN map
    ELSE ReconstructRows(ReconstructRow(map, key, Head(recs)), key, Tail(recs))

\* The records one RowOp appends to the builder in RowOpMap::into_chunks.
RowOpRecords(e) ==
    CASE e.kind = "Insert" -> <<[op |-> "+", row |-> e.new, vis |-> TRUE]>>
      [] e.kind = "Delete" -> <<[op |-> "-", row |-> e.old, vis |-> TRUE]>>
      [] e.kind = "Update" ->
            IF e.old = e.new THEN <<>>
            ELSE <<[op |-> "U-", row |-> e.old, vis |-> TRUE],
                   [op |-> "U+", row |-> e.new, vis |-> TRUE]>>
      [] OTHER -> <<>>

\* StreamChunkBuilder: a chunk is taken once it holds chunk_size records and
\* does not end with an UpdateDelete; the rest is taken at the end.
RECURSIVE BuildChunks(_, _, _)
BuildChunks(recs, cur, chunk_size) ==
    IF recs = <<>> THEN (IF cur = <<>> THEN <<>> ELSE <<cur>>)
    ELSE LET cur1 == Append(cur, Head(recs))
         IN IF Len(cur1) >= chunk_size /\ Head(recs).op # "U-"
            THEN <<cur1>> \o BuildChunks(Tail(recs), <<>>, chunk_size)
            ELSE BuildChunks(Tail(recs), cur1, chunk_size)

\* RowOpMap::into_chunks; `order` is the iteration order of the hash map.
IntoChunks(map, order, chunk_size) ==
    BuildChunks(Flatten([i \in 1..Len(order) |-> RowOpRecords(map[order[i]])]),
                <<>>, chunk_size)

\* The map built by reconstructed_compacted_chunks before into_chunks.
ReconstructMap(cs, key) ==
    ReconstructRows([k \in AllKeys(cs, key) |-> Vacant], key, Flatten(cs))

\* StreamChunkCompactor::reconstructed_compacted_chunks
ReconstructedCompactedChunks(cs, key, order, chunk_size) ==
    Ok(IntoChunks(ReconstructMap(cs, key), order, chunk_size))


--------------------------------------------------------------------------
(* Downstream state: stream key -> row, NoRow when the key is absent *)

IsInsert(op) == op \in {"+", "U+"}

ApplyRecord(s, key, rec) ==
    IF ~rec.vis THEN s
    ELSE [s EXCEPT ![Project(rec.row, key)] = IF IsInsert(rec.op) THEN rec.row ELSE NoRow]

RECURSIVE ApplyRecords(_, _, _)
ApplyRecords(s, key, recs) ==
    IF recs = <<>> THEN s
    ELSE ApplyRecords(ApplyRecord(s, key, Head(recs)), key, Tail(recs))

\* The downstream state after the chunks cs, starting from s.
Apply(s, key, cs) == ApplyRecords(s, key, Flatten(cs))

\* The downstream state a change log presupposes: a key whose first visible
\* record is a delete holds the deleted row, every other key is absent.
PresupposedState(cs, key) ==
    LET vr == VisibleRecords(cs)
        First(k) == LET I == {i \in DOMAIN vr : Project(vr[i].row, key) = k}
                    IN IF I = {} THEN 0 ELSE CHOOSE i \in I : \A j \in I : i <= j
    IN [k \in AllKeys(cs, key) |->
            IF First(k) # 0 /\ ~IsInsert(vr[First(k)].op) THEN vr[First(k)].row ELSE NoRow]

\* No duplicate insert and no duplicate delete on a key.
RECURSIVE NoDuplicates(_, _, _)
NoDuplicates(s, key, recs) ==
    IF recs = <<>> THEN TRUE
    ELSE LET rec == Head(recs)
             k == Project(rec.row, key)
         IN /\ rec.vis => IF IsInsert(rec.op) THEN s[k] = NoRow ELSE s[k] # NoRow
            /\ NoDuplicates(ApplyRecord(s, key, rec), key, Tail(recs))

ValidChangeLog(cs, key) == NoDuplicates(PresupposedState(cs, key), key, Flatten(cs))

--------------------------------------------------------------------------
(* The compactor as a state machine *)

CompactorIdle ==
    /\ chunks = <<>>
    /\ stream_key = <<1>>
    /\ compacted = NotRun
    /\ reconstructed = NotRun
    /\ recompacted = NotRun

\* StreamChunkCompactor::new on any input of at most MaxRows records in two chunks
CompactorNew ==
    /\ \E flat \in SeqsUpTo(InputRecords, MaxRows) :
         \E split \in (IF flat = <<>> THEN {0} ELSE 1..Len(flat)) :
            chunks = <<SubSeq(flat, 1, split), SubSeq(flat, split + 1, Len(flat))>>
    /\ stream_key \in StreamKeys
    /\ compacted = NotRun
    /\ reconstructed = NotRun
    /\ recompacted = NotRun

DoIntoCompactedChunks ==
    /\ compacted = NotRun
    /\ compacted' = IntoCompactedChunks(chunks, stream_key)
    /\ UNCHANGED <<chunks, stream_key, reconstructed, recompacted>>

DoReconstructedCompactedChunks ==
    /\ reconstructed = NotRun
    /\ \E order \in Perms(AllKeys(chunks, stream_key)) : \E size \in ReconChunkSizes :
          reconstructed' = ReconstructedCompactedChunks(chunks, stream_key, order, size)
    /\ UNCHANGED <<chunks, stream_key, compacted, recompacted>>

\* into_compacted_chunks applied to its own output
DoCompactAgain ==
    /\ compacted.tag = "Ok"
    /\ recompacted = NotRun
    /\ recompacted' = IntoCompactedChunks(compacted.chunks, stream_key)
    /\ UNCHANGED <<chunks, stream_key, compacted, reconstructed>>

--------------------------------------------------------------------------
(* ============================ DML executor ============================ *)

MAX_CHUNK_FOR_ATOMICITY == 32

\* Bounds of the DML model.
ChunkSize == 2          \* DmlExecutor.chunk_size
MaxUpstream == 2        \* upstream messages after the first barrier
MaxTxnMsgs == 4         \* transaction messages the writers send
MaxPending == 1         \* messages waiting on one side

\* Transaction ids: 1 and 2 are used by the model's writers, 3 only by a
\* transaction the executor has consumed before the model starts to branch.
TxnIds == {1, 2, 3}
WriterIds == {1, 2}
\* rows of one Data chunk
ChunkCards == {1, 2}

\* A chunk is the sequence of its visible rows; a row is tagged with the id of
\* the transaction that wrote it, 0 for a row of the upstream.
ChunkMsg(rows) == [type |-> "chunk", rows |-> rows, mutation |-> "None"]
BarrierMsg(m) == [type |-> "barrier", rows |-> <<>>, mutation |-> m]
TxnChunk(t, n) == [i \in 1..n |-> t]

Mutations == {"None", "Pause", "Resume"}
UpstreamMsgs == {ChunkMsg(<<0>>)} \cup {BarrierMsg(m) : m \in Mutations}

\* An Err item of the merged stream, from either side.
ErrorMsg == [type |-> "error", rows |-> <<>>, mutation |-> "None"]

TxnMsg(kind, t, chunk) == [kind |-> kind, txn_id |-> t, chunk |-> chunk]
\* An Err item on the DML side, in the place of a TxnMsg.
TxnError == TxnMsg("Error", 0, <<>>)

\* TxnBuffer; present = FALSE stands for "not in active_txn_map".
NoBuffer == [present |-> FALSE, vec |-> <<>>, overflow |-> FALSE]
\* TxnBuffer::default()
EmptyBuffer == [present |-> TRUE, vec |-> <<>>, overflow |-> FALSE]

\* StreamChunk::cardinality
ChunkCard(c) == Len(c)
RECURSIVE SumCard(_)
SumCard(cs) == IF cs = <<>> THEN 0 ELSE ChunkCard(Head(cs)) + SumCard(Tail(cs))

Yield(st, msg) == [st EXCEPT !.out = Append(@, msg)]

\* for chunk in cs { yield Message::Chunk(chunk) }
YieldChunks(st, cs) ==
    [st EXCEPT !.out = @ \o [i \in 1..Len(cs) |-> ChunkMsg(cs[i])]]

\* builder.append_row: the builder yields a chunk once it holds chunk_size rows.
AppendRow(st, row) ==
    LET b == Append(st.builder, row)
    IN IF Len(b) >= ChunkSize
       THEN Yield([st EXCEPT !.builder = <<>>], ChunkMsg(b))
       ELSE [st EXCEPT !.builder = b]

RECURSIVE AppendRows(_, _)
AppendRows(st, rows) ==
    IF rows = <<>> THEN st ELSE AppendRows(AppendRow(st, Head(rows)), Tail(rows))

\* builder.take
BuilderTake(st) ==
    IF st.builder = <<>> THEN st
    ELSE Yield([st EXCEPT !.builder = <<>>], ChunkMsg(st.builder))

\* "Flush the remaining batch group": the rows of the batch group go through
\* the builder and what is left in the builder is taken.
FlushBatchGroup(st) ==
    IF st.batch_group = <<>> THEN st
    ELSE BuilderTake(AppendRows([st EXCEPT !.batch_group = <<>>],
                                Flatten(st.batch_group)))

\* Variant of OnUpstream that forwards a barrier and leaves the batch group.
OnUpstreamNoFlush(st, msg) ==
    IF msg.type = "barrier"
    THEN LET st1 == CASE msg.mutation = "Pause" -> [st EXCEPT !.paused = TRUE]
                      [] msg.mutation = "Resume" -> [st EXCEPT !.paused = FALSE]
                      [] OTHER -> st
         IN Yield(st1, msg)
    ELSE Yield(st, msg)

\* Variant of OnUpstream that forwards a barrier before the flush.
OnUpstreamBarrierFirst(st, msg) ==
    IF msg.type = "barrier"
    THEN LET st1 == CASE msg.mutation = "Pause" -> [st EXCEPT !.paused = TRUE]
                      [] msg.mutation = "Resume" -> [st EXCEPT !.paused = FALSE]
                      [] OTHER -> st
         IN FlushBatchGroup(Yield(st1, msg))
    ELSE Yield(st, msg)

\* Variant of OnUpstream that does not pause on a Pause barrier.
OnUpstreamNoPause(st, msg) ==
    IF msg.type = "barrier"
    THEN LET st1 == CASE msg.mutation = "Resume" -> [st EXCEPT !.paused = FALSE]
                      [] OTHER -> st
         IN Yield(FlushBatchGroup(st1), msg)
    ELSE Yield(st, msg)

\* Either::Left(msg): a barrier pauses or resumes the DML side and flushes the
\* batch group; every upstream message is then forwarded.
OnUpstream(st, msg) ==
    IF msg.type = "barrier"
    THEN LET st1 == CASE msg.mutation = "Pause" -> [st EXCEPT !.paused = TRUE]
                      [] msg.mutation = "Resume" -> [st EXCEPT !.paused = FALSE]
                      [] OTHER -> st
         IN Yield(FlushBatchGroup(st1), msg)
    ELSE Yield(st, msg)

\* panic!(..): the executor stops; the message names the transaction id
DmlPanic(st, msg, txn_id) ==
    [st EXCEPT !.panicked = TRUE, !.panic = [msg |-> msg, txn_id |-> txn_id]]

\* Variant of OnBegin that replaces the buffer of an id that is already active.
OnBeginOverwrite(st, t) == [st EXCEPT !.active_txn_map[t] = EmptyBuffer]

\* TxnMsg::Begin
OnBegin(st, t) ==
    IF st.active_txn_map[t].present THEN DmlPanic(st, "Transaction id collision", t)
    ELSE [st EXCEPT !.active_txn_map[t] = EmptyBuffer]

\* Variant of OnEnd that forwards a small transaction at once instead of
\* putting it in the batch group.
OnEndNoCoalesce(st, t) ==
    IF ~st.active_txn_map[t].present THEN DmlPanic(st, "Receive an unexpected transaction end message", t)
    ELSE LET txn_buffer == st.active_txn_map[t]
             st1 == [st EXCEPT !.active_txn_map[t] = NoBuffer]
         IN YieldChunks(FlushBatchGroup(st1), txn_buffer.vec)

\* Variant of OnEnd that forwards a large transaction before it flushes the
\* batch group.
OnEndTxnFirst(st, t) ==
    IF ~st.active_txn_map[t].present
    THEN DmlPanic(st, "Receive an unexpected transaction end message", t)
    ELSE LET txn_buffer == st.active_txn_map[t]
             st1 == [st EXCEPT !.active_txn_map[t] = NoBuffer]
         IN IF SumCard(txn_buffer.vec) >= ChunkSize
            THEN FlushBatchGroup(YieldChunks(st1, txn_buffer.vec))
            ELSE IF SumCard(txn_buffer.vec) + SumCard(st.batch_group) <= ChunkSize
                 THEN [st1 EXCEPT !.batch_group = @ \o txn_buffer.vec]
                 ELSE [FlushBatchGroup(st1) EXCEPT !.batch_group = txn_buffer.vec]

\* Variant of OnEnd that puts every small transaction in the batch group,
\* whether the batch group has space or not.
OnEndCoalesceAlways(st, t) ==
    IF ~st.active_txn_map[t].present
    THEN DmlPanic(st, "Receive an unexpected transaction end message", t)
    ELSE LET txn_buffer == st.active_txn_map[t]
             st1 == [st EXCEPT !.active_txn_map[t] = NoBuffer]
         IN IF SumCard(txn_buffer.vec) >= ChunkSize
            THEN YieldChunks(FlushBatchGroup(st1), txn_buffer.vec)
            ELSE [st1 EXCEPT !.batch_group = @ \o txn_buffer.vec]

\* TxnMsg::End
OnEnd(st, t) ==
    IF ~st.active_txn_map[t].present THEN DmlPanic(st, "Receive an unexpected transaction end message", t)
    ELSE LET txn_buffer == st.active_txn_map[t]
             st1 == [st EXCEPT !.active_txn_map[t] = NoBuffer]
             txn_buffer_cardinality == SumCard(txn_buffer.vec)
             batch_group_cardinality == SumCard(st.batch_group)
         IN IF txn_buffer_cardinality >= ChunkSize
            THEN YieldChunks(FlushBatchGroup(st1), txn_buffer.vec)
            ELSE IF txn_buffer_cardinality + batch_group_cardinality <= ChunkSize
                 THEN [st1 EXCEPT !.batch_group = @ \o txn_buffer.vec]
                 ELSE [FlushBatchGroup(st1) EXCEPT !.batch_group = txn_buffer.vec]

\* Variant of OnRollback that treats the message as an End.
OnRollbackAsEnd(st, t) == OnEnd(st, t)

\* TxnMsg::Rollback
OnRollback(st, t) ==
    IF ~st.active_txn_map[t].present THEN DmlPanic(st, "Receive an unexpected transaction rollback message", t)
    ELSE [st EXCEPT !.active_txn_map[t] = NoBuffer]

\* Variant of OnData that drains the buffer when it reaches
\* MAX_CHUNK_FOR_ATOMICITY chunks rather than when it exceeds it.
OnDataOverflowAtLimit(st, t, chunk) ==
    IF ~st.active_txn_map[t].present THEN DmlPanic(st, "Receive an unexpected transaction data message", t)
    ELSE LET txn_buffer == st.active_txn_map[t]
         IN IF txn_buffer.overflow THEN Yield(st, ChunkMsg(chunk))
            ELSE LET vec == Append(txn_buffer.vec, chunk)
                 IN IF Len(vec) >= MAX_CHUNK_FOR_ATOMICITY
                    THEN YieldChunks(
                            [st EXCEPT !.active_txn_map[t] =
                                [present |-> TRUE, vec |-> <<>>, overflow |-> TRUE]],
                            vec)
                    ELSE [st EXCEPT !.active_txn_map[t].vec = vec]

\* Variant of OnData that yields the buffered chunks without draining them.
OnDataNoDrain(st, t, chunk) ==
    IF ~st.active_txn_map[t].present
    THEN DmlPanic(st, "Receive an unexpected transaction data message", t)
    ELSE LET txn_buffer == st.active_txn_map[t]
         IN IF txn_buffer.overflow THEN Yield(st, ChunkMsg(chunk))
            ELSE LET vec == Append(txn_buffer.vec, chunk)
                 IN IF Len(vec) > MAX_CHUNK_FOR_ATOMICITY
                    THEN YieldChunks(
                            [st EXCEPT !.active_txn_map[t] =
                                [present |-> TRUE, vec |-> vec, overflow |-> TRUE]],
                            vec)
                    ELSE [st EXCEPT !.active_txn_map[t].vec = vec]

\* TxnMsg::Data
OnData(st, t, chunk) ==
    IF ~st.active_txn_map[t].present THEN DmlPanic(st, "Receive an unexpected transaction data message", t)
    ELSE LET txn_buffer == st.active_txn_map[t]
         IN IF txn_buffer.overflow THEN Yield(st, ChunkMsg(chunk))
            ELSE LET vec == Append(txn_buffer.vec, chunk)
                 IN IF Len(vec) > MAX_CHUNK_FOR_ATOMICITY
                    THEN YieldChunks(
                            [st EXCEPT !.active_txn_map[t] =
                                [present |-> TRUE, vec |-> <<>>, overflow |-> TRUE]],
                            vec)
                    ELSE [st EXCEPT !.active_txn_map[t].vec = vec]

\* Either::Right(txn_msg)
OnTxnMsg(st, m) ==
    CASE m.kind = "Begin" -> OnBegin(st, m.txn_id)
      [] m.kind = "End" -> OnEnd(st, m.txn_id)
      [] m.kind = "Rollback" -> OnRollback(st, m.txn_id)
      [] m.kind = "Data" -> OnData(st, m.txn_id, m.chunk)

RECURSIVE RunTxnMsgs(_, _)
RunTxnMsgs(st, ms) ==
    IF ms = <<>> THEN st
    ELSE LET next == OnTxnMsg(st, Head(ms))
         IN IF next.panicked THEN next ELSE RunTxnMsgs(next, Tail(ms))


--------------------------------------------------------------------------
(* The DML executor as a state machine *)

\* The part of a turn that runs after its last yield: nothing (NoAfter), or
\* the assignments still to be made.
NoAfter == [pending |-> FALSE, batch_group |-> <<>>,
            active_txn_map |-> [t \in TxnIds |-> NoBuffer]]
After(fin) == [pending |-> TRUE, batch_group |-> fin.batch_group,
               active_txn_map |-> fin.active_txn_map]

\* The executor stands at `stream.next().await`: no turn is suspended.
AtNext(st) == st.yielding = <<>> /\ ~st.after.pending

DmlRunning(st) == ~st.panicked /\ ~st.ended

\* What the fields are while a turn that ends in fin is suspended at one of
\* its yields. The flush took the batch group before its first yield and the
\* builder is empty at each yield; End with a small transaction that did not
\* fit swaps it in after the flush (mem::swap, after the last yield); the
\* drain of a large transaction sets overflow after its last yield.
TxnMid(st, m, fin) ==
    CASE m.kind = "End" /\ st.active_txn_map[m.txn_id].present
            /\ SumCard(st.active_txn_map[m.txn_id].vec) < ChunkSize
            /\ fin.out # st.out ->
                [fin EXCEPT !.batch_group = <<>>]
      [] m.kind = "Data" /\ st.active_txn_map[m.txn_id].present
            /\ ~st.active_txn_map[m.txn_id].overflow
            /\ fin.out # st.out ->
                [fin EXCEPT !.active_txn_map[m.txn_id].overflow = FALSE]
      [] OTHER -> fin

\* A turn of the loop as the consumer sees it: the turn that takes st to fin
\* runs to its first yield and hands over one item; the other items wait
\* for the next polls, the fields being those of mid meanwhile.
Suspend(st, fin, mid) ==
    LET new == SubSeq(fin.out, Len(st.out) + 1, Len(fin.out))
    IN IF new = <<>> \/ fin.panicked THEN fin
       ELSE [mid EXCEPT !.out = Append(st.out, new[1]),
                        !.yielding = Tail(new),
                        !.after = IF mid.batch_group = fin.batch_group
                                      /\ mid.active_txn_map = fin.active_txn_map
                                   THEN NoAfter ELSE After(fin)]

\* The consumer polls a suspended executor: the next item is yielded, or, past
\* the last yield, the turn runs to its end.
Resume(st) ==
    IF st.yielding # <<>>
    THEN [st EXCEPT !.out = Append(@, Head(st.yielding)), !.yielding = Tail(@)]
    ELSE [st EXCEPT !.batch_group = st.after.batch_group,
                    !.active_txn_map = st.after.active_txn_map,
                    !.after = NoAfter]

\* The state at the end of the turn that st is in.
RECURSIVE Settled(_)
Settled(st) == IF AtNext(st) THEN st ELSE Settled(Resume(st))

\* `input_msg?`: an Err item is handed to the consumer and the stream is over.
StreamError(st) == [st EXCEPT !.out = Append(@, ErrorMsg), !.ended = TRUE]

\* The executor's state right after it forwarded the first barrier.
DmlStarted(first) ==
    [paused |-> (first.mutation = "PauseOnStartup"),
     active_txn_map |-> [t \in TxnIds |-> NoBuffer],
     batch_group |-> <<>>,
     builder |-> <<>>,
     out |-> <<first>>,
     yielding |-> <<>>,
     after |-> NoAfter,
     ended |-> FALSE,
     panicked |-> FALSE,
     panic |-> [msg |-> "none", txn_id |-> 0]]

\* Begin(t) followed by n Data messages of one row each.
LongTxn(t, n) ==
    <<TxnMsg("Begin", t, <<>>)>> \o [i \in 1..n |-> TxnMsg("Data", t, TxnChunk(t, 1))]

SmallTxn(t) ==
    <<TxnMsg("Begin", t, <<>>), TxnMsg("Data", t, TxnChunk(t, 1)), TxnMsg("End", t, <<>>)>>

SmallRollback(t) ==
    <<TxnMsg("Begin", t, <<>>), TxnMsg("Data", t, TxnChunk(t, 1)), TxnMsg("Rollback", t, <<>>)>>

\* What the executor has consumed before the model starts to branch: nothing,
\* a small committed transaction, a transaction one chunk short of
\* MAX_CHUNK_FOR_ATOMICITY, that transaction begun after a small committed
\* or a small rolled-back one, or two small committed transactions.
DmlPrefixes ==
    {<<>>,
     SmallTxn(2),
     LongTxn(1, MAX_CHUNK_FOR_ATOMICITY - 1),
     SmallTxn(2) \o LongTxn(1, MAX_CHUNK_FOR_ATOMICITY - 1),
     SmallRollback(2) \o LongTxn(1, MAX_CHUNK_FOR_ATOMICITY - 1),
     SmallTxn(3) \o SmallTxn(2)}

WritersAfter(ms) ==
    [t \in TxnIds |->
        IF \E i \in DOMAIN ms : ms[i].txn_id = t /\ ms[i].kind \in {"End", "Rollback"}
        THEN "closed"
        ELSE IF \E i \in DOMAIN ms : ms[i].txn_id = t /\ ms[i].kind = "Begin"
             THEN "open" ELSE "idle"]

\* How a Rollback finds the transaction's buffer: not overflowed ("clean") or
\* overflowed, with part of its data already sent ("overflow").
RollbackMode(st, t) ==
    IF st.active_txn_map[t].overflow THEN "overflow" ELSE "clean"

\* The prefixes roll back only transactions that have not overflowed.
RolledBackAfter(ms) ==
    [t \in TxnIds |->
        IF \E i \in DOMAIN ms : ms[i].txn_id = t /\ ms[i].kind = "Rollback"
        THEN "clean" ELSE "no"]

CommittedAfter(ms) ==
    LET ends == SelectSeqIdx(ms, LAMBDA m : m.kind = "End")
    IN [i \in 1..Len(ends) |-> ends[i].txn_id]

DmlIdle ==
    /\ upstream = <<>>
    /\ batch_reader = <<>>
    /\ dml = DmlStarted(BarrierMsg("None"))
    /\ writers = [t \in TxnIds |-> "idle"]
    /\ dml_sent = [up |-> 0, txn |-> 0]
    /\ committed = <<>>
    /\ rolled_back = [t \in TxnIds |-> "no"]

DmlInit ==
    /\ upstream = <<>>
    /\ batch_reader = <<>>
    /\ dml_sent = [up |-> 0, txn |-> 0]
    /\ \/ /\ dml = DmlStarted(BarrierMsg("PauseOnStartup"))
          /\ writers = [t \in TxnIds |-> "idle"]
          /\ committed = <<>>
          /\ rolled_back = [t \in TxnIds |-> "no"]
       \/ \E prefix \in DmlPrefixes :
             /\ dml = RunTxnMsgs(DmlStarted(BarrierMsg("None")), prefix)
             /\ writers = WritersAfter(prefix)
             /\ committed = CommittedAfter(prefix)
             /\ rolled_back = RolledBackAfter(prefix)

\* StreamReaderWithPause<true, _>: the poll is biased to the upstream side, and
\* the DML side is not polled while the stream is paused.
PollsLeft(st, left, right) == left # <<>>

\* Variant of PollsRight that takes a ready DML message whatever the upstream holds.
PollsRightUnbiased(st, left, right) == ~st.paused /\ right # <<>>

PollsRight(st, left, right) == left = <<>> /\ ~st.paused /\ right # <<>>

\* The upstream executor produces a message. Nothing is sent to an executor
\* that has panicked: its channels are gone with it.
UpstreamSend ==
    /\ DmlRunning(dml)
    /\ dml_sent.up < MaxUpstream
    /\ Len(upstream) < MaxPending
    /\ \E m \in UpstreamMsgs : upstream' = Append(upstream, m)
    /\ dml_sent' = [dml_sent EXCEPT !.up = @ + 1]
    /\ UNCHANGED <<batch_reader, dml, writers, committed, rolled_back>>

\* One side of the merged stream gives an Err item.
StreamFails ==
    /\ DmlRunning(dml)
    /\ \/ /\ dml_sent.up < MaxUpstream
          /\ Len(upstream) < MaxPending
          /\ upstream' = Append(upstream, ErrorMsg)
          /\ dml_sent' = [dml_sent EXCEPT !.up = @ + 1]
          /\ UNCHANGED batch_reader
       \/ /\ dml_sent.txn < MaxTxnMsgs
          /\ Len(batch_reader) < MaxPending
          /\ batch_reader' = Append(batch_reader, TxnError)
          /\ dml_sent' = [dml_sent EXCEPT !.txn = @ + 1]
          /\ UNCHANGED upstream
    /\ UNCHANGED <<dml, writers, committed, rolled_back>>

\* A write handle sends the next message of its transaction.
WriterSend ==
    /\ DmlRunning(dml)
    /\ dml_sent.txn < MaxTxnMsgs
    /\ Len(batch_reader) < MaxPending
    /\ \E t \in WriterIds :
         \/ /\ writers[t] = "idle"
            /\ batch_reader' = Append(batch_reader, TxnMsg("Begin", t, <<>>))
            /\ writers' = [writers EXCEPT ![t] = "open"]
         \/ /\ writers[t] = "open"
            /\ \E n \in ChunkCards :
                  batch_reader' = Append(batch_reader, TxnMsg("Data", t, TxnChunk(t, n)))
            /\ writers' = writers
         \/ /\ writers[t] = "open"
            /\ \E k \in {"End", "Rollback"} :
                  batch_reader' = Append(batch_reader, TxnMsg(k, t, <<>>))
            /\ writers' = [writers EXCEPT ![t] = "closed"]
    /\ dml_sent' = [dml_sent EXCEPT !.txn = @ + 1]
    /\ UNCHANGED <<upstream, dml, committed, rolled_back>>

\* A write handle uses the id of a transaction whose End was processed again,
\* for a transaction without data.
WriterReuse ==
    /\ DmlRunning(dml)
    /\ dml_sent.txn < MaxTxnMsgs
    /\ Len(batch_reader) < MaxPending
    /\ \E t \in WriterIds :
         \/ /\ writers[t] = "closed"
            /\ t \in Range(committed)
            /\ batch_reader' = Append(batch_reader, TxnMsg("Begin", t, <<>>))
            /\ writers' = [writers EXCEPT ![t] = "reopened"]
         \/ /\ writers[t] = "reopened"
            /\ batch_reader' = Append(batch_reader, TxnMsg("End", t, <<>>))
            /\ writers' = [writers EXCEPT ![t] = "closed"]
    /\ dml_sent' = [dml_sent EXCEPT !.txn = @ + 1]
    /\ UNCHANGED <<upstream, dml, committed, rolled_back>>

\* A write handle breaks the protocol: Begin for a transaction that is open,
\* or End, Rollback or Data for one that was never begun or is over. It does
\* so when the executor has taken all earlier messages.
WriterViolate ==
    /\ DmlRunning(dml)
    /\ dml_sent.txn < MaxTxnMsgs
    /\ batch_reader = <<>>
    /\ \E t \in WriterIds :
         \/ /\ writers[t] \in {"open", "reopened"}
            /\ batch_reader' = Append(batch_reader, TxnMsg("Begin", t, <<>>))
         \/ /\ writers[t] \in {"idle", "closed"}
            /\ \E k \in {"End", "Rollback"} :
                  batch_reader' = Append(batch_reader, TxnMsg(k, t, <<>>))
         \/ /\ writers[t] \in {"idle", "closed"}
            /\ batch_reader' = Append(batch_reader, TxnMsg("Data", t, TxnChunk(t, 1)))
    /\ dml_sent' = [dml_sent EXCEPT !.txn = @ + 1]
    /\ UNCHANGED <<upstream, dml, writers, committed, rolled_back>>

\* One turn of the loop `while let Some(input_msg) = stream.next().await`
\* that gets an item of the upstream side, up to its first yield.
DmlTakeUpstream ==
    /\ DmlRunning(dml)
    /\ AtNext(dml)
    /\ PollsLeft(dml, upstream, batch_reader)
    /\ dml' = IF Head(upstream).type = "error" THEN StreamError(dml)
              ELSE LET fin == OnUpstream(dml, Head(upstream))
                   IN Suspend(dml, fin, fin)
    /\ upstream' = Tail(upstream)
    /\ UNCHANGED <<batch_reader, writers, dml_sent, committed, rolled_back>>

\* One turn of the loop that gets an item of the DML side, up to its first
\* yield.
DmlTakeTxnMsg ==
    /\ DmlRunning(dml)
    /\ AtNext(dml)
    /\ PollsRight(dml, upstream, batch_reader)
    /\ LET m == Head(batch_reader)
       IN /\ dml' = IF m.kind = "Error" THEN StreamError(dml)
                    ELSE LET fin == OnTxnMsg(dml, m)
                         IN Suspend(dml, fin, TxnMid(dml, m, fin))
          /\ committed' = IF m.kind = "End" /\ ~dml'.panicked
                          THEN Append(committed, m.txn_id)
                          ELSE committed
          /\ rolled_back' = IF m.kind = "Rollback" /\ ~dml'.panicked
                            THEN [rolled_back EXCEPT ![m.txn_id] = RollbackMode(dml, m.txn_id)]
                            ELSE rolled_back
    /\ batch_reader' = Tail(batch_reader)
    /\ UNCHANGED <<upstream, writers, dml_sent>>

\* The consumer polls the executor while a turn is suspended at a yield.
DmlPoll ==
    /\ DmlRunning(dml)
    /\ ~AtNext(dml)
    /\ dml' = Resume(dml)
    /\ UNCHANGED <<upstream, batch_reader, writers, dml_sent, committed, rolled_back>>

\* stream.next() gives None: both sides have ended, which the merged stream
\* reports once nothing is left on either; while paused the DML side is
\* replaced by a stream that never ends.
DmlStreamEnd ==
    /\ DmlRunning(dml)
    /\ AtNext(dml)
    /\ ~dml.paused
    /\ upstream = <<>>
    /\ batch_reader = <<>>
    /\ dml' = [dml EXCEPT !.ended = TRUE]
    /\ UNCHANGED <<upstream, batch_reader, writers, dml_sent, committed, rolled_back>>

--------------------------------------------------------------------------
(* Local barrier worker (stream/src/task/barrier_manager.rs) *)

MaxEpoch == 2
MaxStreams == 2
\* The operations on actors, besides BuildActors, that the model lets the
\* stream manager send.
MaxActorOps == 1

Actors == {1, 2}
\* The actors that hold a barrier sender: actor 1 is a source, actor 2 is fed by it.
Sources == {1}
Epochs == 1..MaxEpoch
StreamIds == 1..MaxStreams

\* Option::None of an actor id, an epoch or a stream id
NoId == 0

\* Barrier::from_protobuf(req.get_barrier()), actor_ids_to_send, actor_ids_to_collect;
\* stop is all_stop_actors(), empty for a barrier without a Stop mutation
InjectBarrier(epoch, kind, to_send, to_collect) ==
    [type |-> "InjectBarrier", epoch |-> epoch, kind |-> kind, to_send |-> to_send,
     to_collect |-> to_collect, stop |-> {}]

\* Mutation::Stop(actors) on a barrier
WithStop(req, stop_actors) == [req EXCEPT !.stop = stop_actors]

\* What the request stream yields besides a request: Some(Err(e)), and None
RequestStreamErr ==
    [type |-> "Err", epoch |-> NoId, kind |-> "None", to_send |-> {}, to_collect |-> {},
     stop |-> {}]
RequestStreamEnd == [RequestStreamErr EXCEPT !.type = "End"]

\* The barrier an actor finds in the channel of one of its senders.
BarrierClone(req) == [epoch |-> req.epoch, stop |-> req.stop]

\* streaming_control_stream_response::Response, and the terminal Err(Status)
InitResponse == [type |-> "Init", epoch |-> NoId]
CompleteBarrier(epoch) == [type |-> "CompleteBarrier", epoch |-> epoch]

\* ---- StreamError ----
\* The kinds of crate::error::ErrorKind and crate::executor::error::ErrorKind
\* that the score table tells apart, for the errors an actor exits with.
ActorErrorKinds ==
    {"Internal", "ExecutorChannelClosed", "ExecutorInternal", "ExecutorOther", "Other"}

\* The kinds the actors of the model exit with: a closed channel, as an actor
\* sees when its neighbour is gone, and an internal executor error.
FailureKinds == {"ExecutorChannelClosed", "ExecutorInternal"}

\* Ok(()) of a StreamResult, and None of an Option<StreamError>
NoError == [kind |-> "None", actor_id |-> NoId, actors |-> {}]

\* The error an actor reports when it exits.
ActorError(kind, actor_id) == [kind |-> kind, actor_id |-> actor_id, actors |-> {}]

\* into_unexpected_exit: the error with the id of the actor that exited
IntoUnexpectedExit(err, actor_id) == [err EXCEPT !.actor_id = actor_id]

\* anyhow!("to collect actors not found: {:?}", to_collect).into()
ActorsNotFound(to_collect) == [kind |-> "Internal", actor_id |-> NoId, actors |-> to_collect]

\* StreamError::barrier_send(barrier, actor_id, reason)
BarrierSendError(actor_id) == [kind |-> "BarrierSend", actor_id |-> actor_id, actors |-> {}]

\* The error of a failed state-store sync.
SyncError == [kind |-> "Storage", actor_id |-> NoId, actors |-> {}]

\* Err(Status::internal(format!(..))): the text that leads the message, the
\* epochs it lists and the error it reports
ErrStatus(msg, epochs, err) ==
    [type |-> "Err", epoch |-> NoId, msg |-> msg, epochs |-> epochs, err |-> err]

\* LocalBarrierEvent
RegisterSenderEvent(a) == [type |-> "RegisterSender", actor_id |-> a, epoch |-> NoId]
ReportActorCollected(a, e) == [type |-> "ReportActorCollected", actor_id |-> a, epoch |-> e]

\* LocalActorOperation
\* The handle of a NewControlStream comes with its request stream, which may
\* hold requests already.
NewControlStream(id, request_stream) ==
    [type |-> "NewControlStream", handle |-> id, request_stream |-> request_stream,
     actors |-> {}]
BuildActors(actor_ids) ==
    [type |-> "BuildActors", handle |-> NoId, request_stream |-> <<>>, actors |-> actor_ids]
DropActors(actor_ids) == [BuildActors(actor_ids) EXCEPT !.type = "DropActors"]
\* UpdateActors, UpdateActorInfo and TakeReceiver, whose payload touches
\* nothing the barrier worker reads
OtherActorOps == {[BuildActors({}) EXCEPT !.type = t] :
                    t \in {"UpdateActors", "UpdateActorInfo", "TakeReceiver"}}
\* no operation: the worker is not in the NewControlStream arm
NoActorOp == [BuildActors({}) EXCEPT !.type = "None"]

\* ---- ManagedBarrierState: one entry per issued barrier, ordered by epoch ----

IssuedEntry(barrier, to_collect) ==
    [epoch |-> barrier.epoch, kind |-> barrier.kind, to_collect |-> to_collect,
     remaining |-> to_collect, status |-> "Issued", ok |-> TRUE]

\* transform_to_issued: the entries are kept in a map ordered by epoch
TransformToIssued(state, barrier, to_collect) ==
    LET before == SelectSeqIdx(state, LAMBDA en : en.epoch < barrier.epoch)
        after == SelectSeqIdx(state, LAMBDA en : en.epoch > barrier.epoch)
    IN before \o <<IssuedEntry(barrier, to_collect)>> \o after

\* Variant of collect that starts the sync of an epoch of any kind.
ManagedCollectSyncsAnyKind(state, actor_id, epoch) ==
    [i \in DOMAIN state |->
        IF state[i].epoch = epoch /\ actor_id \in state[i].remaining
        THEN LET left == state[i].remaining \ {actor_id}
             IN [state[i] EXCEPT
                    !.remaining = left,
                    !.status = IF left # {} THEN @ ELSE "Running"]
        ELSE state[i]]

\* collect: a report for an unknown epoch or an actor that is not awaited is ignored
ManagedCollect(state, actor_id, epoch) ==
    [i \in DOMAIN state |->
        IF state[i].epoch = epoch /\ actor_id \in state[i].remaining
        THEN LET left == state[i].remaining \ {actor_id}
             IN [state[i] EXCEPT
                    !.remaining = left,
                    !.status = IF left # {}
                               THEN @
                               ELSE IF state[i].kind = "Checkpoint" THEN "Running" ELSE "Done"]
        ELSE state[i]]

\* next_completed_epoch: the earliest-by-epoch Done entry; pending while no
\* entry is Done
NextCompletedEpoch(state) ==
    LET done == {state[i].epoch : i \in {j \in DOMAIN state : state[j].status = "Done"}}
    IN IF done = {} THEN NoId ELSE CHOOSE e \in done : \A d \in done : e <= d

EntryOf(state, epoch) == state[CHOOSE i \in DOMAIN state : state[i].epoch = epoch]

\* pop_completed_epoch
PopCompletedEpoch(state, epoch) == SelectSeqIdx(state, LAMBDA en : en.epoch # epoch)

\* epochs_await_on_actor
EpochsAwaitOnActor(state, actor_id) ==
    {state[i].epoch : i \in {j \in DOMAIN state : actor_id \in state[j].remaining}}

\* ---- ControlStreamHandle ----
\* A context is the worker with the two ends of its control stream: the
\* responses sent on each handle, and the requests waiting on the current one.

Ctx(w, resp, reqs) == [worker |-> w, responses |-> resp, requests |-> reqs]

\* ControlStreamHandle::empty
EmptyHandle == [pair |-> FALSE, id |-> NoId]

\* ControlStreamHandle::new
NewHandle(id) == [pair |-> TRUE, id |-> id]

\* The receiver of a response channel is gone: nothing can be sent on it.
ReceiverDropped == [type |-> "Dropped", epoch |-> NoId]

\* sender.send(..).is_err()
SenderClosed(resp, id) == resp[id] # <<>> /\ resp[id][Len(resp[id])] = ReceiverDropped

\* reset_stream_with_err: pair.take(), and the error goes out on the sender
\* unless its receiver is gone
ResetStreamWithErr(c, err) ==
    LET h == c.worker.control_stream_handle
    IN IF h.pair
       THEN Ctx([c.worker EXCEPT !.control_stream_handle.pair = FALSE],
                IF SenderClosed(c.responses, h.id)
                THEN c.responses
                ELSE [c.responses EXCEPT ![h.id] = Append(@, err)],
                <<>>)
       ELSE c

\* inspect_result
InspectResult(c, result) ==
    IF result = NoError THEN c
    ELSE ResetStreamWithErr(c, ErrStatus("get error", {}, result))

\* Variant of send_response that uses the sender of a handle that was reset.
SendResponseAfterReset(c, response) ==
    LET h == c.worker.control_stream_handle
    IN IF h.id # NoId /\ ~SenderClosed(c.responses, h.id)
       THEN [c EXCEPT !.responses[h.id] = Append(@, response)]
       ELSE c

\* send_response: a failed send drops the pair, and the request stream with it
SendResponse(c, response) ==
    LET h == c.worker.control_stream_handle
    IN IF h.pair
       THEN IF SenderClosed(c.responses, h.id)
            THEN Ctx([c.worker EXCEPT !.control_stream_handle.pair = FALSE],
                     c.responses, <<>>)
            ELSE [c EXCEPT !.responses[h.id] = Append(@, response)]
       ELSE c

\* ---- LocalBarrierWorker ----

\* LocalBarrierWorker::new; the watermark epoch belongs to the actor manager.
\* barrier_senders gives the number of senders in the Vec of each actor, 0 for
\* an actor without an entry.
NewWorker(watermark_epoch) ==
    [barrier_senders |-> [a \in Actors |-> 0],
     state |-> <<>>,
     failure_actors |-> [a \in Actors |-> NoError],
     control_stream_handle |-> EmptyHandle,
     handles |-> {},
     creating_actors |-> {},
     root_failure |-> NoError,
     watermark_epoch |-> watermark_epoch,
     pc |-> "select",
     notifying |-> NoId,
     new_control_stream |-> NoActorOp]

\* Variant of ResetState that keeps the in-flight epochs.
ResetStateKeepsEpochs(w) == [NewWorker(w.watermark_epoch) EXCEPT !.state = w.state]

\* reset_state
ResetState(w) == NewWorker(w.watermark_epoch)

\* Variant of on_epoch_completed that reports the epoch whatever its result.
OnEpochCompletedAnyResult(c, epoch) ==
    SendResponse([c EXCEPT !.worker.state = PopCompletedEpoch(@, epoch)],
                 CompleteBarrier(epoch))

\* on_epoch_completed, followed by inspect_result
OnEpochCompleted(c, epoch) ==
    LET entry == EntryOf(c.worker.state, epoch)
        popped == [c EXCEPT !.worker.state = PopCompletedEpoch(@, epoch)]
    IN IF entry.ok
       THEN SendResponse(popped, CompleteBarrier(epoch))
       ELSE InspectResult(popped, SyncError)

\* register_sender
RegisterSender(w, actor_id) == [w EXCEPT !.barrier_senders[actor_id] = @ + 1]

\* collect
Collect(w, actor_id, epoch) == [w EXCEPT !.state = ManagedCollect(@, actor_id, epoch)]

\* handle_barrier_event
HandleBarrierEvent(w, event) ==
    IF event.type = "RegisterSender"
    THEN RegisterSender(w, event.actor_id)
    ELSE Collect(w, event.actor_id, event.epoch)

\* Variant of the send loop in which a send to a dropped receiver succeeds.
UnreachableNoSenderOnly(w, to_send, closed) == {a \in to_send : w.barrier_senders[a] = 0}

\* The to_send actors the barrier cannot be sent to: no sender registered, or
\* the receiving end dropped with the actor.
Unreachable(w, to_send, closed) ==
    {a \in to_send : w.barrier_senders[a] = 0 \/ a \in closed}

\* The actors with a recorded failure.
FailedActors(w) == {a \in Actors : w.failure_actors[a] # NoError}

\* Variant of the check that finds no failure.
RecordedFailuresIgnored(w, to_collect) == {}

\* send_barrier: the errors the loop over to_collect may return; to_collect is
\* a hash set, so with no root failure any failed actor may come first.
RecordedFailures(w, to_collect) ==
    {IF w.root_failure # NoError THEN w.root_failure ELSE w.failure_actors[a] :
        a \in to_collect \cap FailedActors(w)}

\* Variant of the store that takes the epoch of a barrier of any kind.
StoreWatermarkAnyKind(w, req) == [w EXCEPT !.watermark_epoch = req.epoch]

\* send_barrier: an Initial barrier stores its curr epoch in the watermark epoch
StoreWatermark(w, req) ==
    IF req.kind = "Initial" THEN [w EXCEPT !.watermark_epoch = req.epoch] ELSE w

\* Variant of send_barrier that records the barrier and removes the senders
\* of the actors it stops before it looks for failed actors.
SendBarrierIssuesFirst(w, req, closed) ==
    LET marked == StoreWatermark(w, req)
        issued == [marked EXCEPT !.state = TransformToIssued(@, req, req.to_collect)]
        stopped == [issued EXCEPT !.barrier_senders =
                       [a \in Actors |-> IF a \in req.stop THEN 0 ELSE @[a]]]
        unreachable == Unreachable(w, req.to_send, closed)
    IN IF RecordedFailures(w, req.to_collect) # {}
       THEN {[worker |-> stopped, result |-> e, delivered |-> {}] :
                e \in RecordedFailures(w, req.to_collect)}
       ELSE IF unreachable = {}
            THEN {[worker |-> stopped, result |-> NoError, delivered |-> req.to_send]}
            ELSE {[worker |-> issued, result |-> BarrierSendError(a), delivered |-> before] :
                     a \in unreachable, before \in SUBSET (req.to_send \ unreachable)}

\* Variant of send_barrier that keeps the senders of the actors a barrier stops.
SendBarrierKeepsStopped(w, req, closed) ==
    LET marked == StoreWatermark(w, req)
        issued == [marked EXCEPT !.state = TransformToIssued(@, req, req.to_collect)]
        unreachable == Unreachable(w, req.to_send, closed)
    IN IF RecordedFailures(w, req.to_collect) # {}
       THEN {[worker |-> marked, result |-> e, delivered |-> {}] :
                e \in RecordedFailures(w, req.to_collect)}
       ELSE IF unreachable = {}
            THEN {[worker |-> issued, result |-> NoError, delivered |-> req.to_send]}
            ELSE {[worker |-> issued, result |-> BarrierSendError(a), delivered |-> before] :
                     a \in unreachable, before \in SUBSET (req.to_send \ unreachable)}

\* The rest of send_barrier once the to_collect actors are known to exist.
\* delivered are the actors whose senders got a clone of the barrier: with an
\* error, those that came before the first unreachable one.
SendBarrierChecked(w, req, closed) ==
    LET marked == StoreWatermark(w, req)
        issued == [marked EXCEPT !.state = TransformToIssued(@, req, req.to_collect)]
        stopped == [issued EXCEPT !.barrier_senders =
                       [a \in Actors |-> IF a \in req.stop THEN 0 ELSE @[a]]]
        unreachable == Unreachable(w, req.to_send, closed)
    IN IF RecordedFailures(w, req.to_collect) # {}
       THEN {[worker |-> marked, result |-> e, delivered |-> {}] :
                e \in RecordedFailures(w, req.to_collect)}
       ELSE IF unreachable = {}
            THEN {[worker |-> stopped, result |-> NoError, delivered |-> req.to_send]}
            ELSE {[worker |-> issued, result |-> BarrierSendError(a), delivered |-> before] :
                     a \in unreachable, before \in SUBSET (req.to_send \ unreachable)}

\* Variant of SendBarrier without the check for to_collect actors that are
\* not known locally.
SendBarrierNoMissingCheck(w, req, closed) == SendBarrierChecked(w, req, closed)

\* send_barrier: the worker afterwards and the result it returns (NoError
\* for Ok). to_collect and to_send are hash sets: the order of their
\* iteration decides which error comes first, so every outcome is given.
SendBarrier(w, req, closed) ==
    IF req.to_collect \ w.handles # {}
    THEN {[worker |-> w, result |-> ActorsNotFound(req.to_collect), delivered |-> {}]}
    ELSE SendBarrierChecked(w, req, closed)

\* add_failure
AddFailure(w, actor_id, err) ==
    [w EXCEPT !.failure_actors[actor_id] = IntoUnexpectedExit(err, actor_id)]

\* stream_error_score with stream_executor_error_score
StreamErrorScore(e) ==
    CASE e.kind = "Internal" -> 1000
      [] e.kind = "ExecutorChannelClosed" -> 2000 + 0
      [] e.kind = "ExecutorInternal" -> 2000 + 1
      [] e.kind = "ExecutorOther" -> 2000 + 999
      [] OTHER -> 3000

\* try_find_root_actor_failure: max_by_key over the values of the map, whose
\* iteration order decides between errors of the same score; the empty set
\* stands for None.
TryFindRootActorFailure(actor_errors) ==
    {e \in actor_errors : \A o \in actor_errors : StreamErrorScore(o) <= StreamErrorScore(e)}

\* failure_actors.values()
RecordedErrors(w) == {w.failure_actors[a] : a \in FailedActors(w)}

\* notify_failure after try_find_root_failure returned root_err
ReportFailedEpochs(c, actor_id, root_err) ==
    LET failed_epochs == EpochsAwaitOnActor(c.worker.state, actor_id)
    IN IF failed_epochs # {}
       THEN ResetStreamWithErr(c, ErrStatus("failed to collect barrier", failed_epochs, root_err))
       ELSE c

--------------------------------------------------------------------------
(* The barrier worker as a state machine *)

Running(a) == a.st \in {"spawned", "registered", "registered twice"}

\* An actor: how far it got, the barriers it has still to report (todo) and
\* the barriers enqueued by its senders so far (rx).
NoActor == [st |-> "none", todo |-> <<>>, rx |-> <<>>]

\* n clones of a barrier
Clones(barrier, n) == [i \in 1..n |-> barrier]

BarrierInit ==
    /\ worker = NewWorker(NoId)
    /\ responses = [s \in StreamIds |-> <<>>]
    /\ requests = <<>>
    /\ actor_op_rx = <<>>
    /\ barrier_event_rx = <<>>
    /\ actor_failure_rx = <<>>
    /\ actors = [a \in Actors |-> NoActor]
    /\ meta = [streams |-> 0, built |-> FALSE, injected |-> FALSE, next_epoch |-> 1,
               stream_of |-> [e \in Epochs |-> NoId], stopped |-> {},
               ops |-> 0, closed |-> FALSE]

BarrierIdle == BarrierInit

\* The meta service opens a control stream, and may put the first barrier on
\* it without waiting for the worker's answer. meta.stream_of records the
\* stream each epoch was injected on.
MetaNewControlStream ==
    /\ ~meta.closed
    /\ meta.streams < MaxStreams
    /\ \A i \in DOMAIN actor_op_rx : actor_op_rx[i].type # "NewControlStream"
    /\ \/ /\ meta' = [meta EXCEPT !.streams = @ + 1, !.built = FALSE, !.injected = FALSE,
                                  !.stopped = {}]
          /\ actor_op_rx' = Append(actor_op_rx, NewControlStream(meta.streams + 1, <<>>))
       \/ /\ meta.next_epoch <= MaxEpoch
          /\ meta' = [meta EXCEPT !.streams = @ + 1, !.built = FALSE, !.injected = TRUE,
                                  !.stopped = {},
                                  !.next_epoch = @ + 1,
                                  !.stream_of[meta.next_epoch] = meta.streams + 1]
          /\ actor_op_rx' =
                Append(actor_op_rx,
                       NewControlStream(meta.streams + 1,
                                        <<InjectBarrier(meta.next_epoch, "Initial", {}, Actors)>>))
    /\ UNCHANGED <<worker, responses, requests, barrier_event_rx, actor_failure_rx, actors>>

\* The stream id the meta service got an Init response on, and no error since,
\* on neither side.
MetaConnected ==
    /\ meta.streams # 0
    /\ responses[meta.streams] # <<>>
    /\ \A i \in DOMAIN requests : requests[i].type = "InjectBarrier"
    /\ \A i \in DOMAIN responses[meta.streams] :
          responses[meta.streams][i].type \notin {"Err", "Dropped"}

\* The meta service asks for the actors to be built.
MetaBuildActors ==
    /\ ~meta.closed
    /\ MetaConnected
    /\ ~meta.built
    /\ meta' = [meta EXCEPT !.built = TRUE]
    /\ \E actor_ids \in {Sources, Actors} :
          actor_op_rx' = Append(actor_op_rx, BuildActors(actor_ids))
    /\ UNCHANGED <<worker, responses, requests, barrier_event_rx, actor_failure_rx, actors>>

\* The stream manager asks for actors to be dropped.
MetaDropActors ==
    /\ ~meta.closed
    /\ MetaConnected
    /\ meta.built
    /\ meta.ops < MaxActorOps
    /\ meta' = [meta EXCEPT !.ops = @ + 1]
    /\ \E actor_ids \in SUBSET Actors \ {{}} :
          actor_op_rx' = Append(actor_op_rx, DropActors(actor_ids))
    /\ UNCHANGED <<worker, responses, requests, barrier_event_rx, actor_failure_rx, actors>>

\* The stream manager sends one of the other operations on actors.
MetaActorOp ==
    /\ ~meta.closed
    /\ MetaConnected
    /\ meta.ops < MaxActorOps
    /\ meta' = [meta EXCEPT !.ops = @ + 1]
    /\ \E op \in OtherActorOps : actor_op_rx' = Append(actor_op_rx, op)
    /\ UNCHANGED <<worker, responses, requests, barrier_event_rx, actor_failure_rx, actors>>

\* The LocalBarrierManager is dropped, and the sender of actor_op_rx with it.
MetaShutdown ==
    /\ ~meta.closed
    /\ meta.streams # 0
    /\ meta' = [meta EXCEPT !.closed = TRUE]
    /\ UNCHANGED <<worker, responses, requests, actor_op_rx, barrier_event_rx,
                   actor_failure_rx, actors>>

\* The meta service injects the next barrier; it collects from no actor it
\* has stopped (meta.stopped).
MetaInjectBarrier ==
    /\ MetaConnected
    /\ meta.built
    /\ meta.next_epoch <= MaxEpoch
    /\ \E kind \in (IF meta.injected THEN {"Barrier", "Checkpoint"} ELSE {"Initial"}),
          to_send \in {{}, Sources},
          to_collect \in SUBSET (Actors \ meta.stopped) \ {{}} :
            requests' = Append(requests,
                               InjectBarrier(meta.next_epoch, kind, to_send, to_collect))
    /\ meta' = [meta EXCEPT !.next_epoch = @ + 1, !.injected = TRUE,
                            !.stream_of[meta.next_epoch] = meta.streams]
    /\ UNCHANGED <<worker, responses, actor_op_rx, barrier_event_rx, actor_failure_rx, actors>>

\* The meta service injects a barrier with a Stop mutation.
MetaInjectStop ==
    /\ MetaConnected
    /\ meta.built
    /\ meta.next_epoch <= MaxEpoch
    /\ \E kind \in (IF meta.injected THEN {"Barrier", "Checkpoint"} ELSE {"Initial"}),
          to_send \in {{}, Sources},
          to_collect \in SUBSET (Actors \ meta.stopped) \ {{}},
          stop_actors \in SUBSET Actors \ {{}} :
            /\ requests' =
                  Append(requests,
                         WithStop(InjectBarrier(meta.next_epoch, kind, to_send, to_collect),
                                  stop_actors))
            /\ meta' = [meta EXCEPT !.next_epoch = @ + 1, !.injected = TRUE,
                                    !.stream_of[meta.next_epoch] = meta.streams,
                                    !.stopped = @ \cup stop_actors]
    /\ UNCHANGED <<worker, responses, actor_op_rx, barrier_event_rx, actor_failure_rx, actors>>

\* The request stream of the current handle yields an error, or ends.
MetaRequestStreamFails ==
    /\ MetaConnected
    /\ \E item \in {RequestStreamErr, RequestStreamEnd} : requests' = Append(requests, item)
    /\ UNCHANGED <<worker, responses, actor_op_rx, barrier_event_rx, actor_failure_rx,
                   actors, meta>>

\* The meta service drops the receiver of the responses of its stream.
MetaDropReceiver ==
    /\ \E s \in {meta.streams} \ {NoId} :
          /\ \A i \in DOMAIN responses[s] : responses[s][i].type \notin {"Err", "Dropped"}
          /\ responses' = [responses EXCEPT ![s] = Append(@, ReceiverDropped)]
    /\ UNCHANGED <<worker, requests, actor_op_rx, barrier_event_rx, actor_failure_rx,
                   actors, meta>>

\* A source actor registers its barrier sender.
ActorRegisterSender ==
    \E a \in Sources :
        /\ actors[a].st = "spawned"
        /\ actors' = [actors EXCEPT ![a].st = "registered"]
        /\ barrier_event_rx' = Append(barrier_event_rx, RegisterSenderEvent(a))
        /\ UNCHANGED <<worker, responses, requests, actor_op_rx, actor_failure_rx, meta>>

\* A source actor with two source executors registers the sender of the
\* second one, before it gets a barrier.
ActorRegisterSecondSender ==
    \E a \in Sources :
        /\ actors[a].st = "registered"
        /\ actors[a].rx = <<>>
        /\ actors' = [actors EXCEPT ![a].st = "registered twice"]
        /\ barrier_event_rx' = Append(barrier_event_rx, RegisterSenderEvent(a))
        /\ UNCHANGED <<worker, responses, requests, actor_op_rx, actor_failure_rx, meta>>

\* An actor reports the next barrier it got.
ActorCollect ==
    \E a \in Actors :
        /\ Running(actors[a])
        /\ actors[a].todo # <<>>
        /\ actors' = [actors EXCEPT ![a].todo = Tail(@)]
        /\ barrier_event_rx' =
              Append(barrier_event_rx, ReportActorCollected(a, Head(actors[a].todo)))
        /\ UNCHANGED <<worker, responses, requests, actor_op_rx, actor_failure_rx, meta>>

\* An actor exits unexpectedly and reports it.
ActorFail ==
    \E a \in Actors :
        /\ Running(actors[a])
        /\ actors' = [actors EXCEPT ![a] = [@ EXCEPT !.st = "failed", !.todo = <<>>]]
        /\ \E kind \in FailureKinds :
              actor_failure_rx' = Append(actor_failure_rx, ActorError(kind, a))
        /\ UNCHANGED <<worker, responses, requests, actor_op_rx, barrier_event_rx, meta>>

\* An actor exits with an internal executor error and reports it.
ActorFailInternal ==
    \E a \in Actors :
        /\ Running(actors[a])
        /\ actors' = [actors EXCEPT ![a] = [@ EXCEPT !.st = "failed", !.todo = <<>>]]
        /\ actor_failure_rx' = Append(actor_failure_rx, ActorError("ExecutorInternal", a))
        /\ UNCHANGED <<worker, responses, requests, actor_op_rx, barrier_event_rx, meta>>

\* The state store finishes the sync of a checkpoint epoch.
SyncFinish ==
    \E i \in DOMAIN worker.state, ok \in BOOLEAN :
        /\ worker.state[i].status = "Running"
        /\ worker' = [worker EXCEPT !.state[i].status = "Done", !.state[i].ok = ok]
        /\ UNCHANGED <<responses, requests, actor_op_rx, barrier_event_rx,
                       actor_failure_rx, actors, meta>>

\* ---- the branches of the biased select in run, in its order ----

\* ManagedBarrierState is not among the sources, and 'await the
\* earliest-by-epoch Done entry' leaves open what next_completed_epoch does
\* while an entry is Done and an earlier one is not: yield the Done entry, or
\* stay pending until the earliest entry is Done. Both are admitted. The
\* branch can be taken as soon as some entry is Done (EpochCompletionPossible);
\* it is ready for certain, so that the later branches of the biased select
\* are not reached, once the earliest entry is Done (CompletedEpochReady).
EpochCompletionPossible == NextCompletedEpoch(worker.state) # NoId
CompletedEpochReady == worker.state # <<>> /\ Head(worker.state).status = "Done"
BarrierEventReady == barrier_event_rx # <<>>
ActorFailureReady == actor_failure_rx # <<>>
ActorOpReady == actor_op_rx # <<>> \/ meta.closed
RequestReady == worker.control_stream_handle.pair /\ requests # <<>>

\* next_created_actors, handle_actor_created: the creation ends at its own time
WorkerActorCreated ==
    /\ worker.pc = "select"
    /\ worker.creating_actors # {}
    /\ \E created \in BOOLEAN :
        /\ worker' = [worker EXCEPT
                        !.creating_actors = {},
                        !.handles = IF created THEN @ \cup worker.creating_actors ELSE @]
        /\ actors' = [a \in Actors |->
                        IF created /\ a \in worker.creating_actors
                        THEN [st |-> "spawned", todo |-> <<>>, rx |-> <<>>]
                        ELSE actors[a]]
    /\ UNCHANGED <<responses, requests, actor_op_rx, barrier_event_rx, actor_failure_rx, meta>>

WorkerEpochCompleted ==
    /\ worker.pc = "select"
    /\ EpochCompletionPossible
    /\ LET c == OnEpochCompleted(Ctx(worker, responses, requests),
                                 NextCompletedEpoch(worker.state))
       IN /\ worker' = c.worker
          /\ responses' = c.responses
          /\ requests' = c.requests
    /\ UNCHANGED <<actor_op_rx, barrier_event_rx, actor_failure_rx, actors, meta>>

WorkerBarrierEvent ==
    /\ worker.pc = "select"
    /\ ~CompletedEpochReady
    /\ BarrierEventReady
    /\ worker' = HandleBarrierEvent(worker, Head(barrier_event_rx))
    /\ barrier_event_rx' = Tail(barrier_event_rx)
    /\ UNCHANGED <<responses, requests, actor_op_rx, actor_failure_rx, actors, meta>>

\* notify_failure up to the wait in try_find_root_failure, or to its end when
\* a root failure is known already
WorkerActorFailure ==
    /\ worker.pc = "select"
    /\ ~CompletedEpochReady
    /\ ~BarrierEventReady
    /\ ActorFailureReady
    /\ LET actor_id == Head(actor_failure_rx).actor_id
           added == AddFailure(worker, actor_id, Head(actor_failure_rx))
           c == IF added.root_failure # NoError
                THEN ReportFailedEpochs(Ctx(added, responses, requests), actor_id,
                                        added.root_failure)
                ELSE Ctx([added EXCEPT !.pc = "window", !.notifying = actor_id],
                         responses, requests)
       IN /\ worker' = c.worker
          /\ responses' = c.responses
          /\ requests' = c.requests
    /\ actor_failure_rx' = Tail(actor_failure_rx)
    /\ UNCHANGED <<actor_op_rx, barrier_event_rx, actors, meta>>

\* try_find_root_failure: another failure arrives within the timeout
WorkerWindowRecv ==
    /\ worker.pc = "window"
    /\ ActorFailureReady
    /\ worker' = AddFailure(worker, Head(actor_failure_rx).actor_id, Head(actor_failure_rx))
    /\ actor_failure_rx' = Tail(actor_failure_rx)
    /\ UNCHANGED <<responses, requests, actor_op_rx, barrier_event_rx, actors, meta>>

\* try_find_root_failure: the timeout elapses; notify_failure goes on
WorkerWindowElapsed ==
    /\ worker.pc = "window"
    /\ ~ActorFailureReady
    /\ \E root \in TryFindRootActorFailure(RecordedErrors(worker)) :
        LET found == [worker EXCEPT
                        !.root_failure = root, !.pc = "select", !.notifying = NoId]
            c == ReportFailedEpochs(Ctx(found, responses, requests), worker.notifying, root)
        IN /\ worker' = c.worker
           /\ responses' = c.responses
           /\ requests' = c.requests
    /\ UNCHANGED <<actor_op_rx, barrier_event_rx, actor_failure_rx, actors, meta>>

\* Variant of InstallControlStream that answers Init before it installs the
\* new handle.
InstallControlStreamInitFirst(c, op) ==
    LET answered == SendResponse(Ctx(c.worker, c.responses, <<>>), InitResponse)
    IN Ctx([answered.worker EXCEPT !.control_stream_handle = NewHandle(op.handle)],
           answered.responses, op.request_stream)

\* `self.control_stream_handle = handle` and the Init response on it
InstallControlStream(c, op) ==
    SendResponse(Ctx([c.worker EXCEPT !.control_stream_handle = NewHandle(op.handle)],
                     c.responses, op.request_stream),
                 InitResponse)

\* NewControlStream, up to `self.reset(..).await`: the old handle is reset and
\* the worker waits for its actors to stop.
HandleNewControlStream(op) ==
    LET old == ResetStreamWithErr(Ctx(worker, responses, requests),
                                  ErrStatus("control stream has been reset to a new one",
                                            {}, NoError))
    IN /\ worker' = [old.worker EXCEPT !.pc = "resetting", !.new_control_stream = op]
       /\ responses' = old.responses
       /\ requests' = old.requests
       /\ UNCHANGED <<actors, barrier_event_rx, actor_failure_rx>>

\* NewControlStream, from the end of reset on: the actors are gone and the
\* worker is as new, with the channels of a new shared context; the new
\* handle is installed and Init is answered on it.
WorkerReset ==
    /\ worker.pc = "resetting"
    /\ LET c == InstallControlStream(Ctx(ResetState(worker), responses, requests),
                                     worker.new_control_stream)
       IN /\ worker' = c.worker
          /\ responses' = c.responses
          /\ requests' = c.requests
    /\ actors' = [a \in Actors |-> NoActor]
    /\ barrier_event_rx' = <<>>
    /\ actor_failure_rx' = <<>>
    /\ UNCHANGED <<actor_op_rx, meta>>

\* BuildActors: start_create_actors
HandleBuildActors(op) ==
    /\ worker' = [worker EXCEPT !.creating_actors = op.actors]
    /\ UNCHANGED <<responses, requests, actors, barrier_event_rx, actor_failure_rx>>

\* DropActors: the handles of the actors are removed and the actors aborted.
HandleDropActors(op) ==
    /\ worker' = [worker EXCEPT !.handles = @ \ op.actors]
    /\ actors' = [a \in Actors |->
                    IF a \in op.actors /\ actors[a].st # "none"
                    THEN [st |-> "dropped", todo |-> <<>>, rx |-> <<>>]
                    ELSE actors[a]]
    /\ UNCHANGED <<responses, requests, barrier_event_rx, actor_failure_rx>>

\* handle_actor_op
HandleActorOp(op) ==
    CASE op.type = "BuildActors" -> HandleBuildActors(op)
      [] op.type = "DropActors" -> HandleDropActors(op)
      [] OTHER ->
            UNCHANGED <<worker, responses, requests, actors, barrier_event_rx,
                        actor_failure_rx>>

\* The arm of actor_op_rx.recv(): an operation, or None once every sender is
\* gone, which ends the loop.
WorkerActorOp ==
    /\ worker.pc = "select"
    /\ ~CompletedEpochReady
    /\ ~BarrierEventReady
    /\ ~ActorFailureReady
    /\ ActorOpReady
    /\ IF actor_op_rx = <<>>
       THEN /\ worker' = [worker EXCEPT !.pc = "ended"]
            /\ UNCHANGED <<responses, requests, actors, barrier_event_rx,
                           actor_failure_rx, actor_op_rx>>
       ELSE /\ IF Head(actor_op_rx).type = "NewControlStream"
               THEN HandleNewControlStream(Head(actor_op_rx))
               ELSE HandleActorOp(Head(actor_op_rx))
            /\ actor_op_rx' = Tail(actor_op_rx)
    /\ UNCHANGED meta

\* Variant of next_request that skips what is not a request and reads on.
NextRequestSkips(c, item) == [c EXCEPT !.requests = Tail(@)]

\* next_request when the request stream yields an error or ends
NextRequestFailed(c, item) ==
    ResetStreamWithErr(c, ErrStatus(IF item.type = "Err"
                                    THEN "failed to get request"
                                    ELSE "end of stream",
                                    {}, NoError))

\* handle_streaming_control_request, followed by inspect_result
HandleStreamingControlRequest ==
    \E sent \in SendBarrier(worker, Head(requests),
                             {a \in Actors : actors[a].st \in {"failed", "dropped"}}) :
       LET req == Head(requests)
           c == InspectResult(Ctx(sent.worker, responses, Tail(requests)), sent.result)
       IN /\ worker' = c.worker
          /\ responses' = c.responses
          /\ requests' = c.requests
          /\ actors' = [a \in Actors |->
                          [actors[a] EXCEPT
                             !.rx = IF a \in sent.delivered
                                    THEN @ \o Clones(BarrierClone(req), worker.barrier_senders[a])
                                    ELSE @,
                             !.todo = IF sent.result = NoError /\ a \in req.to_collect
                                         /\ Running(actors[a])
                                      THEN Append(@, req.epoch)
                                      ELSE @]]

\* Variant of the select that polls the control stream before the barrier events.
WorkerControlRequestFirst ==
    /\ worker.pc = "select"
    /\ ~CompletedEpochReady
    /\ ~ActorFailureReady
    /\ ~ActorOpReady
    /\ RequestReady
    /\ IF Head(requests).type = "InjectBarrier"
       THEN HandleStreamingControlRequest
       ELSE LET c == NextRequestFailed(Ctx(worker, responses, requests), Head(requests))
            IN /\ worker' = c.worker
               /\ responses' = c.responses
               /\ requests' = c.requests
               /\ UNCHANGED actors
    /\ UNCHANGED <<actor_op_rx, barrier_event_rx, actor_failure_rx, meta>>

\* next_request, and the branch of the select it feeds
WorkerControlRequest ==
    /\ worker.pc = "select"
    /\ ~CompletedEpochReady
    /\ ~BarrierEventReady
    /\ ~ActorFailureReady
    /\ ~ActorOpReady
    /\ RequestReady
    /\ IF Head(requests).type = "InjectBarrier"
       THEN HandleStreamingControlRequest
       ELSE LET c == NextRequestFailed(Ctx(worker, responses, requests), Head(requests))
            IN /\ worker' = c.worker
               /\ responses' = c.responses
               /\ requests' = c.requests
               /\ UNCHANGED actors
    /\ UNCHANGED <<actor_op_rx, barrier_event_rx, actor_failure_rx, meta>>

WorkerStep ==
    \/ WorkerActorCreated
    \/ WorkerEpochCompleted
    \/ WorkerBarrierEvent
    \/ WorkerActorFailure
    \/ WorkerWindowRecv
    \/ WorkerWindowElapsed
    \/ WorkerActorOp
    \/ WorkerReset
    \/ WorkerControlRequest

--------------------------------------------------------------------------
(* Compaction scheduler (meta/src/hummock/compaction_scheduler.rs) *)

\* Tasks the model lets the scheduler send for one group.
MaxSent == 2

\* StaticCompactionGroupId::StateDefault and ::MaterializedView
CompactionGroupIds == {2, 3}
NoGroup == 0

\* ScheduleStatus::as_str
ScheduleStatuses ==
    {"Ok", "NoTask", "PickFailure", "NoAvailableCompactor", "AssignFailure", "SendFailure"}

\* How pick_and_assign_impl can end: with a status, or in the panic on
\* Error::CompactionTaskAlreadyAssigned.
PickOutcomes == ScheduleStatuses \cup {"Panic"}

\* A CompactionSchedulerChannel seen as a value: its kind ("Default", "Mock",
\* or "None" for an absent side channel), the queue behind tx, the scheduled
\* set, and what the last call returned.
Channel(kind, queue, marks, result) ==
    [kind |-> kind, queue |-> queue, scheduled |-> marks, result |-> result]

MockChannel == Channel("Mock", <<>>, {}, "none")
NoChannel == Channel("None", <<>>, {}, "none")

\* try_sched_compaction of the two implementations; `closed` says that the
\* receiver of the channel is gone, so that tx.send fails. The mock does
\* nothing and answers Ok(true).
TrySchedCompaction(ch, compaction_group, closed) ==
    IF ch.kind # "Default"
    THEN [ch EXCEPT !.result = "Ok(true)"]
    ELSE IF compaction_group \in ch.scheduled
         THEN [ch EXCEPT !.result = "Ok(false)"]
         ELSE IF closed
              THEN [ch EXCEPT !.result = "Err"]
              ELSE Channel("Default", Append(ch.queue, compaction_group),
                           ch.scheduled \cup {compaction_group}, "Ok(true)")

\* unschedule of the two implementations
Unschedule(ch, compaction_group) ==
    IF ch.kind # "Default" THEN ch
    ELSE [ch EXCEPT !.scheduled = @ \ {compaction_group}]

\* The end of pick_and_assign_impl for a given outcome of picking, assigning
\* and sending: after a task was sent the group is rescheduled on
\* sched_channel (step 4) unless enable_compaction_deterministic is set;
\* every other outcome returns, or panics, before that.
PickAndAssignImpl(sched_channel, compaction_group, outcome, enable_compaction_deterministic, closed) ==
    IF outcome = "Ok" /\ ~enable_compaction_deterministic
    THEN TrySchedCompaction(sched_channel, compaction_group, closed)
    ELSE [sched_channel EXCEPT !.result = "none"]

\* pick_and_assign: pick_and_assign_impl, then unschedule on both channels; a
\* panic in pick_and_assign_impl leaves the channels as they are.
PickAndAssign(sched_channel, side_sched_channel, compaction_group, outcome, enable_compaction_deterministic, closed) ==
    LET ch == PickAndAssignImpl(sched_channel, compaction_group, outcome,
                                enable_compaction_deterministic, closed)
    IN IF outcome = "Panic"
       THEN [sched_channel |-> sched_channel, side_sched_channel |-> side_sched_channel,
             resched |-> "none"]
       ELSE [sched_channel |-> Unschedule(ch, compaction_group),
             side_sched_channel |-> Unschedule(side_sched_channel, compaction_group),
             resched |-> ch.result]

\* `for cg_id in compaction_group_ids() { sched_channel.try_sched_compaction(cg_id) }`
RECURSIVE TrySchedAll(_, _)
TrySchedAll(ch, ids) ==
    IF ids = <<>> THEN ch
    ELSE TrySchedAll(TrySchedCompaction(ch, Head(ids), FALSE), Tail(ids))

SchedLoop(pc, group, deterministic_mode, enable_compaction_deterministic) ==
    [pc |-> pc, group |-> group, deterministic_mode |-> deterministic_mode,
     enable_compaction_deterministic |-> enable_compaction_deterministic]

NoSchedLog == [sent |-> [g \in CompactionGroupIds |-> 0], status |-> "none", resched |-> "none"]

\* start() after init_compaction_scheduler: an empty channel, nothing marked.
\* sched_rx and scheduled are the queue and the set of the one
\* DefaultCompactionSchedulerChannel that start creates: sched_channel when
\* deterministic_mode is off, side_sched_channel when it is on.
SchedInit ==
    /\ sched_rx = <<>>
    /\ scheduled = {}
    /\ \E deterministic_mode \in BOOLEAN, enable_compaction_deterministic \in BOOLEAN :
          sched_loop = SchedLoop("select", NoGroup, deterministic_mode,
                                 enable_compaction_deterministic)
    /\ sched_log = NoSchedLog

SchedIdle ==
    /\ sched_rx = <<>>
    /\ scheduled = {}
    /\ sched_loop = SchedLoop("select", NoGroup, FALSE, FALSE)
    /\ sched_log = NoSchedLog

DefaultChannel == Channel("Default", sched_rx, scheduled, "none")

\* sched_channel and side_sched_channel of start
SchedChannel == IF sched_loop.deterministic_mode THEN MockChannel ELSE DefaultChannel
SideSchedChannel == IF sched_loop.deterministic_mode THEN DefaultChannel ELSE NoChannel

\* start has ended, by shutdown or by a panic: its receivers are dropped.
ReceiversDropped == sched_loop.pc \in {"stopped", "panicked"}

\* The default channel becomes ch; a mock or absent channel holds no state.
StoreChannel(ch) ==
    IF ch.kind = "Default"
    THEN sched_rx' = ch.queue /\ scheduled' = ch.scheduled
    ELSE UNCHANGED <<sched_rx, scheduled>>

\* The hummock manager, which got both channels from init_compaction_scheduler,
\* asks for a compaction of a group on one of them.
ManagerTrySchedCompaction ==
    /\ \E g \in CompactionGroupIds :
       \E ch \in {c \in {SchedChannel, SideSchedChannel} : c.kind # "None"} :
          StoreChannel(TrySchedCompaction(ch, g, ReceiversDropped))
    /\ UNCHANGED <<sched_loop, sched_log>>

\* The select! of start with deterministic_mode off: the expression of the
\* disabled side branch is evaluated all the same, and
\* side_sched_rx.as_mut().unwrap() panics on None before any arm runs.
SchedulerSelectPanics ==
    /\ sched_loop.pc = "select"
    /\ ~sched_loop.deterministic_mode
    /\ sched_loop' = [sched_loop EXCEPT !.pc = "panicked"]
    /\ UNCHANGED <<sched_rx, scheduled, sched_log>>

\* The arm of the select on min_trigger_interval.tick(): every group is
\* scheduled on sched_channel, in the order compaction_group_ids() gives them.
SchedulerTick ==
    /\ sched_loop.pc = "select"
    /\ sched_loop.deterministic_mode
    /\ \E ids \in Perms(CompactionGroupIds) :
          StoreChannel(TrySchedAll(SchedChannel, ids))
    /\ UNCHANGED <<sched_loop, sched_log>>

\* The arm of the select that receives a group: with deterministic_mode on,
\* the mock never sends on sched_rx and the group comes from side_sched_rx.
SchedulerRecv ==
    /\ sched_loop.pc = "select"
    /\ sched_loop.deterministic_mode
    /\ sched_rx # <<>>
    /\ sched_rx' = Tail(sched_rx)
    /\ sched_loop' = [sched_loop EXCEPT !.pc = "picked", !.group = Head(sched_rx)]
    /\ UNCHANGED <<scheduled, sched_log>>

\* pick_and_assign for the group taken from the channel; what the hummock
\* manager and the compactor answer decides the outcome.
SchedulerPickAndAssign ==
    /\ sched_loop.pc = "picked"
    /\ \E outcome \in PickOutcomes :
          LET g == sched_loop.group
              r == PickAndAssign(SchedChannel, SideSchedChannel, g, outcome,
                                 sched_loop.enable_compaction_deterministic, FALSE)
          IN /\ outcome = "Ok" => sched_log.sent[g] < MaxSent
             /\ StoreChannel(IF r.sched_channel.kind = "Default"
                             THEN r.sched_channel ELSE r.side_sched_channel)
             /\ sched_log' = [sent |-> IF outcome = "Ok"
                                        THEN [sched_log.sent EXCEPT ![g] = @ + 1]
                                        ELSE sched_log.sent,
                              status |-> outcome,
                              resched |-> r.resched]
             /\ sched_loop' = [sched_loop EXCEPT
                                  !.pc = IF outcome = "Panic" THEN "panicked" ELSE "select",
                                  !.group = NoGroup]

\* The arm of the select on shutdown_rx: the loop ends and the receivers are
\* dropped.
SchedulerShutdown ==
    /\ sched_loop.pc = "select"
    /\ sched_loop.deterministic_mode
    /\ sched_loop' = [sched_loop EXCEPT !.pc = "stopped"]
    /\ UNCHANGED <<sched_rx, scheduled, sched_log>>

--------------------------------------------------------------------------
(* ========================== Specifications =========================== *)

InitCompactor == CompactorNew /\ DmlIdle /\ BarrierIdle /\ SchedIdle

NextCompactor ==
    \/ DoIntoCompactedChunks /\ UNCHANGED <<dmlVars, barrierVars, schedVars>>
    \/ DoReconstructedCompactedChunks /\ UNCHANGED <<dmlVars, barrierVars, schedVars>>
    \/ DoCompactAgain /\ UNCHANGED <<dmlVars, barrierVars, schedVars>>

SpecCompactor == InitCompactor /\ [][NextCompactor]_vars

NextDml ==
    \/ UpstreamSend /\ UNCHANGED <<compactorVars, barrierVars, schedVars>>
    \/ WriterSend /\ UNCHANGED <<compactorVars, barrierVars, schedVars>>
    \/ DmlTakeUpstream /\ UNCHANGED <<compactorVars, barrierVars, schedVars>>
    \/ DmlTakeTxnMsg /\ UNCHANGED <<compactorVars, barrierVars, schedVars>>
    \/ StreamFails /\ UNCHANGED <<compactorVars, barrierVars, schedVars>>
    \/ DmlPoll /\ UNCHANGED <<compactorVars, barrierVars, schedVars>>
    \/ DmlStreamEnd /\ UNCHANGED <<compactorVars, barrierVars, schedVars>>

InitDml == DmlInit /\ CompactorIdle /\ BarrierIdle /\ SchedIdle

SpecDml == InitDml /\ [][NextDml]_vars

\* The consumer keeps polling the executor and the executor's loop its
\* stream: a message that is ready on the side the poll looks at is taken.
SpecDmlFair ==
    /\ SpecDml
    /\ WF_vars(DmlTakeUpstream /\ UNCHANGED <<compactorVars, barrierVars, schedVars>>)
    /\ WF_vars(DmlTakeTxnMsg /\ UNCHANGED <<compactorVars, barrierVars, schedVars>>)
    /\ WF_vars(DmlPoll /\ UNCHANGED <<compactorVars, barrierVars, schedVars>>)

InitSched == SchedInit /\ CompactorIdle /\ DmlIdle /\ BarrierIdle

NextSched ==
    \/ ManagerTrySchedCompaction /\ UNCHANGED <<compactorVars, dmlVars, barrierVars>>
    \/ SchedulerSelectPanics /\ UNCHANGED <<compactorVars, dmlVars, barrierVars>>
    \/ SchedulerTick /\ UNCHANGED <<compactorVars, dmlVars, barrierVars>>
    \/ SchedulerRecv /\ UNCHANGED <<compactorVars, dmlVars, barrierVars>>
    \/ SchedulerPickAndAssign /\ UNCHANGED <<compactorVars, dmlVars, barrierVars>>
    \/ SchedulerShutdown /\ UNCHANGED <<compactorVars, dmlVars, barrierVars>>

\* The compaction scheduler with its channels, in both modes.
SpecSched == InitSched /\ [][NextSched]_vars

\* The DML executor with writers that may also use an id again or break the
\* protocol.
NextDmlAnyWriter ==
    \/ UpstreamSend /\ UNCHANGED <<compactorVars, barrierVars, schedVars>>
    \/ WriterSend /\ UNCHANGED <<compactorVars, barrierVars, schedVars>>
    \/ WriterReuse /\ UNCHANGED <<compactorVars, barrierVars, schedVars>>
    \/ WriterViolate /\ UNCHANGED <<compactorVars, barrierVars, schedVars>>
    \/ DmlTakeUpstream /\ UNCHANGED <<compactorVars, barrierVars, schedVars>>
    \/ DmlTakeTxnMsg /\ UNCHANGED <<compactorVars, barrierVars, schedVars>>
    \/ StreamFails /\ UNCHANGED <<compactorVars, barrierVars, schedVars>>
    \/ DmlPoll /\ UNCHANGED <<compactorVars, barrierVars, schedVars>>
    \/ DmlStreamEnd /\ UNCHANGED <<compactorVars, barrierVars, schedVars>>

SpecDmlAnyWriter == InitDml /\ [][NextDmlAnyWriter]_vars

InitBarrier == BarrierInit /\ CompactorIdle /\ DmlIdle /\ SchedIdle

NextBarrier ==
    \/ MetaNewControlStream /\ UNCHANGED <<compactorVars, dmlVars, schedVars>>
    \/ MetaBuildActors /\ UNCHANGED <<compactorVars, dmlVars, schedVars>>
    \/ MetaInjectBarrier /\ UNCHANGED <<compactorVars, dmlVars, schedVars>>
    \/ ActorRegisterSender /\ UNCHANGED <<compactorVars, dmlVars, schedVars>>
    \/ ActorCollect /\ UNCHANGED <<compactorVars, dmlVars, schedVars>>
    \/ ActorFail /\ UNCHANGED <<compactorVars, dmlVars, schedVars>>
    \/ SyncFinish /\ UNCHANGED <<compactorVars, dmlVars, schedVars>>
    \/ WorkerActorCreated /\ UNCHANGED <<compactorVars, dmlVars, schedVars>>
    \/ WorkerEpochCompleted /\ UNCHANGED <<compactorVars, dmlVars, schedVars>>
    \/ WorkerBarrierEvent /\ UNCHANGED <<compactorVars, dmlVars, schedVars>>
    \/ WorkerActorFailure /\ UNCHANGED <<compactorVars, dmlVars, schedVars>>
    \/ WorkerWindowRecv /\ UNCHANGED <<compactorVars, dmlVars, schedVars>>
    \/ WorkerWindowElapsed /\ UNCHANGED <<compactorVars, dmlVars, schedVars>>
    \/ WorkerActorOp /\ UNCHANGED <<compactorVars, dmlVars, schedVars>>
    \/ WorkerReset /\ UNCHANGED <<compactorVars, dmlVars, schedVars>>
    \/ WorkerControlRequest /\ UNCHANGED <<compactorVars, dmlVars, schedVars>>

SpecBarrier == InitBarrier /\ [][NextBarrier]_vars

\* The worker loop is scheduled fairly, running actors report the barriers they
\* got, and a started sync ends.
SpecBarrierFair ==
    /\ SpecBarrier
    /\ WF_vars(WorkerStep /\ UNCHANGED <<compactorVars, dmlVars, schedVars>>)
    /\ WF_vars(ActorCollect /\ UNCHANGED <<compactorVars, dmlVars, schedVars>>)
    /\ WF_vars(SyncFinish /\ UNCHANGED <<compactorVars, dmlVars, schedVars>>)

\* The barrier worker with barriers that stop actors and with source actors
\* of two senders.
NextBarrierStop ==
    \/ MetaNewControlStream /\ UNCHANGED <<compactorVars, dmlVars, schedVars>>
    \/ MetaBuildActors /\ UNCHANGED <<compactorVars, dmlVars, schedVars>>
    \/ MetaInjectBarrier /\ UNCHANGED <<compactorVars, dmlVars, schedVars>>
    \/ ActorRegisterSender /\ UNCHANGED <<compactorVars, dmlVars, schedVars>>
    \/ ActorCollect /\ UNCHANGED <<compactorVars, dmlVars, schedVars>>
    \/ ActorFailInternal /\ UNCHANGED <<compactorVars, dmlVars, schedVars>>
    \/ SyncFinish /\ UNCHANGED <<compactorVars, dmlVars, schedVars>>
    \/ WorkerActorCreated /\ UNCHANGED <<compactorVars, dmlVars, schedVars>>
    \/ WorkerEpochCompleted /\ UNCHANGED <<compactorVars, dmlVars, schedVars>>
    \/ WorkerBarrierEvent /\ UNCHANGED <<compactorVars, dmlVars, schedVars>>
    \/ WorkerActorFailure /\ UNCHANGED <<compactorVars, dmlVars, schedVars>>
    \/ WorkerWindowRecv /\ UNCHANGED <<compactorVars, dmlVars, schedVars>>
    \/ WorkerWindowElapsed /\ UNCHANGED <<compactorVars, dmlVars, schedVars>>
    \/ WorkerActorOp /\ UNCHANGED <<compactorVars, dmlVars, schedVars>>
    \/ WorkerReset /\ UNCHANGED <<compactorVars, dmlVars, schedVars>>
    \/ WorkerControlRequest /\ UNCHANGED <<compactorVars, dmlVars, schedVars>>
    \/ MetaInjectStop /\ UNCHANGED <<compactorVars, dmlVars, schedVars>>
    \/ ActorRegisterSecondSender /\ UNCHANGED <<compactorVars, dmlVars, schedVars>>

SpecBarrierStop == InitBarrier /\ [][NextBarrierStop]_vars

\* The barrier worker on control streams that break: the request stream
\* fails or ends, the receiver of the responses is dropped.
NextBarrierBroken ==
    \/ MetaNewControlStream /\ UNCHANGED <<compactorVars, dmlVars, schedVars>>
    \/ MetaBuildActors /\ UNCHANGED <<compactorVars, dmlVars, schedVars>>
    \/ MetaInjectBarrier /\ UNCHANGED <<compactorVars, dmlVars, schedVars>>
    \/ ActorRegisterSender /\ UNCHANGED <<compactorVars, dmlVars, schedVars>>
    \/ ActorCollect /\ UNCHANGED <<compactorVars, dmlVars, schedVars>>
    \/ ActorFailInternal /\ UNCHANGED <<compactorVars, dmlVars, schedVars>>
    \/ SyncFinish /\ UNCHANGED <<compactorVars, dmlVars, schedVars>>
    \/ WorkerActorCreated /\ UNCHANGED <<compactorVars, dmlVars, schedVars>>
    \/ WorkerEpochCompleted /\ UNCHANGED <<compactorVars, dmlVars, schedVars>>
    \/ WorkerBarrierEvent /\ UNCHANGED <<compactorVars, dmlVars, schedVars>>
    \/ WorkerActorFailure /\ UNCHANGED <<compactorVars, dmlVars, schedVars>>
    \/ WorkerWindowRecv /\ UNCHANGED <<compactorVars, dmlVars, schedVars>>
    \/ WorkerWindowElapsed /\ UNCHANGED <<compactorVars, dmlVars, schedVars>>
    \/ WorkerActorOp /\ UNCHANGED <<compactorVars, dmlVars, schedVars>>
    \/ WorkerReset /\ UNCHANGED <<compactorVars, dmlVars, schedVars>>
    \/ WorkerControlRequest /\ UNCHANGED <<compactorVars, dmlVars, schedVars>>
    \/ MetaRequestStreamFails /\ UNCHANGED <<compactorVars, dmlVars, schedVars>>
    \/ MetaDropReceiver /\ UNCHANGED <<compactorVars, dmlVars, schedVars>>

SpecBarrierBroken == InitBarrier /\ [][NextBarrierBroken]_vars

\* The barrier worker with every operation on actors, with a stream manager
\* that may go away, and with actors that do not fail.
NextBarrierOps ==
    \/ MetaNewControlStream /\ UNCHANGED <<compactorVars, dmlVars, schedVars>>
    \/ MetaBuildActors /\ UNCHANGED <<compactorVars, dmlVars, schedVars>>
    \/ MetaInjectBarrier /\ UNCHANGED <<compactorVars, dmlVars, schedVars>>
    \/ ActorRegisterSender /\ UNCHANGED <<compactorVars, dmlVars, schedVars>>
    \/ ActorCollect /\ UNCHANGED <<compactorVars, dmlVars, schedVars>>
    \/ SyncFinish /\ UNCHANGED <<compactorVars, dmlVars, schedVars>>
    \/ WorkerActorCreated /\ UNCHANGED <<compactorVars, dmlVars, schedVars>>
    \/ WorkerEpochCompleted /\ UNCHANGED <<compactorVars, dmlVars, schedVars>>
    \/ WorkerBarrierEvent /\ UNCHANGED <<compactorVars, dmlVars, schedVars>>
    \/ WorkerActorOp /\ UNCHANGED <<compactorVars, dmlVars, schedVars>>
    \/ WorkerReset /\ UNCHANGED <<compactorVars, dmlVars, schedVars>>
    \/ WorkerControlRequest /\ UNCHANGED <<compactorVars, dmlVars, schedVars>>
    \/ MetaDropActors /\ UNCHANGED <<compactorVars, dmlVars, schedVars>>
    \/ MetaActorOp /\ UNCHANGED <<compactorVars, dmlVars, schedVars>>
    \/ MetaShutdown /\ UNCHANGED <<compactorVars, dmlVars, schedVars>>

SpecBarrierOps == InitBarrier /\ [][NextBarrierOps]_vars



--------------------------------------------------------------------------
(* Claims about the compactor *)

\* C8: for a valid change log (no duplicate insert, no duplicate delete on a
\* key) the compacted output, in place or reconstructed, has per stream key
\* the same net effect on the downstream state as the input.
CompactorEquivalence ==
    ((compacted # NotRun \/ reconstructed # NotRun)
        /\ ValidChangeLog(chunks, stream_key)) =>
        LET s0 == PresupposedState(chunks, stream_key)
            want == Apply(s0, stream_key, chunks)
        IN /\ compacted # NotRun =>
                /\ compacted.tag = "Ok"
                /\ Apply(s0, stream_key, compacted.chunks) = want
           /\ reconstructed # NotRun =>
                Apply(s0, stream_key, reconstructed.chunks) = want

CompactorEquivalenceWitness ==
    /\ ValidChangeLog(chunks, stream_key)
    /\ compacted.tag = "Ok"
    /\ reconstructed.tag = "Ok"
    /\ Cardinality_(compacted.chunks) < Cardinality_(chunks)
    /\ Cardinality_(compacted.chunks) > 0
    /\ Apply(PresupposedState(chunks, stream_key), stream_key, chunks)
         # PresupposedState(chunks, stream_key)

\* C9: the compacted output never has more visible records than the input,
\* in place and reconstructed alike, whatever the input.
CompactorNeverGrows ==
    /\ compacted.tag = "Ok" => Cardinality_(compacted.chunks) <= Cardinality_(chunks)
    /\ reconstructed.tag = "Ok" =>
          Cardinality_(reconstructed.chunks) <= Cardinality_(chunks)

CompactorNeverGrowsWitness ==
    /\ compacted.tag = "Ok"
    /\ reconstructed.tag = "Ok"
    /\ \E r \in Range(Flatten(chunks)) : ~r.vis
    /\ Cardinality_(reconstructed.chunks) < Cardinality_(chunks)
    /\ Cardinality_(compacted.chunks) = Cardinality_(reconstructed.chunks)

\* C10: compacting the output of an in-place compaction again with the same
\* stream key changes nothing: same ops, same visibility, same rows.
CompactorIdempotent ==
    recompacted # NotRun => recompacted = compacted

CompactorIdempotentWitness ==
    /\ recompacted.tag = "Ok"
    /\ compacted.chunks # chunks
    /\ \E r \in Range(Flatten(compacted.chunks)) : r.vis /\ r.op = "U-"
    /\ \E r \in Range(Flatten(compacted.chunks)) : ~r.vis



--------------------------------------------------------------------------
(* Claims about the DML executor *)

Last(q) == q[Len(q)]

HasRowOf(msg, t) == msg.type = "chunk" /\ \E i \in DOMAIN msg.rows : msg.rows[i] = t

\* The rows of the chunks of a message sequence, in order.
RowsOf(msgs) == Flatten([i \in 1..Len(msgs) |-> msgs[i].rows])

CountOf(rows, t) == Cardinality({i \in DOMAIN rows : rows[i] = t})

\* The rows a committed transaction wrote: those emitted and those pending.
TxnCardinality(t) ==
    CountOf(RowsOf(Settled(dml).out), t) + CountOf(Flatten(Settled(dml).batch_group), t)

\* The executor's state at the end of the turn that this step starts.
TurnEnd == Settled(dml')

\* The items that the turn this step starts hands to the consumer.
NewOut == SubSeq(TurnEnd.out, Len(dml.out) + 1, Len(TurnEnd.out))

\* The executor gets an item from its stream in this step.
StartsTurn == AtNext(dml) /\ dml' # dml

\* While a turn is suspended the executor takes nothing, and each poll of the
\* consumer gets the next item of the turn or lets the turn end.
SuspendedTurn ==
    ~AtNext(dml) =>
        /\ Len(upstream') >= Len(upstream)
        /\ Len(batch_reader') >= Len(batch_reader)
        /\ dml' # dml =>
              /\ Settled(dml') = Settled(dml)
              /\ dml'.out = IF dml.yielding = <<>> THEN dml.out
                            ELSE Append(dml.out, Head(dml.yielding))

\* C3: every committed transaction of at most MAX_CHUNK_FOR_ATOMICITY *
\* chunk_size rows has all its rows between the same two adjacent barriers of
\* the output: no barrier lies between two of its rows.
DmlAtomicity ==
    \A t \in Range(committed) :
        TxnCardinality(t) <= MAX_CHUNK_FOR_ATOMICITY * ChunkSize =>
            \A j \in DOMAIN dml.out :
                dml.out[j].type = "barrier" =>
                    ~ /\ \E i \in 1..(j - 1) : HasRowOf(dml.out[i], t)
                      /\ \E k \in (j + 1)..Len(dml.out) : HasRowOf(dml.out[k], t)

\* C4: when an upstream message is available the executor's next turn takes
\* it, also when a transaction message is available: no transaction message is
\* consumed, and the turn ends by forwarding that upstream message; while a
\* turn is suspended at a yield nothing is taken from either side.
DmlUpstreamBias ==
    [][/\ (upstream # <<>> /\ StartsTurn) =>
             /\ batch_reader' = batch_reader
             /\ upstream' = Tail(upstream)
             /\ Last(TurnEnd.out) = Head(upstream)
       /\ ~AtNext(dml) =>
             /\ Len(upstream') >= Len(upstream)
             /\ Len(batch_reader') >= Len(batch_reader)]_vars

DmlUpstreamBiasWitness ==
    /\ upstream # <<>>
    /\ Head(upstream).type = "barrier"
    /\ batch_reader # <<>>
    /\ ~dml.paused
    /\ DmlRunning(dml)
    /\ AtNext(dml)

\* C5: a barrier taken from the upstream while the batch group is non-empty
\* is forwarded after every row of the batch group, which leaves in chunks of
\* at most chunk_size rows; the batch group and the builder are empty from
\* the first of these chunks on, and the consumer gets the chunks and then
\* the barrier, one item per poll, nothing else being taken meanwhile.
DmlFlushBeforeBarrier ==
    [][/\ (upstream # <<>> /\ Head(upstream).type = "barrier"
             /\ dml.batch_group # <<>> /\ StartsTurn) =>
          /\ Len(NewOut) >= 2
          /\ Last(NewOut) = Head(upstream)
          /\ \A i \in 1..(Len(NewOut) - 1) :
                /\ NewOut[i].type = "chunk"
                /\ Len(NewOut[i].rows) \in 1..ChunkSize
          /\ RowsOf(SubSeq(NewOut, 1, Len(NewOut) - 1)) = Flatten(dml.batch_group)
          /\ dml'.out = Append(dml.out, NewOut[1])
          /\ dml'.batch_group = <<>> /\ TurnEnd.batch_group = <<>>
          /\ dml'.builder = <<>> /\ TurnEnd.builder = <<>>
       /\ SuspendedTurn]_vars

\* a barrier right after a chunk that holds rows of two transactions
DmlFlushBeforeBarrierWitness ==
    /\ Len(dml.out) >= 3
    /\ Last(dml.out).type = "barrier"
    /\ HasRowOf(dml.out[Len(dml.out) - 1], 1)
    /\ HasRowOf(dml.out[Len(dml.out) - 1], 2)
    /\ dml.batch_group = <<>>

\* Whether the last barrier of `out` that pauses or resumes is one that pauses.
RECURSIVE PausedAfter(_)
PausedAfter(out) ==
    IF out = <<>> THEN FALSE
    ELSE LET m == Last(out)
         IN IF m.type = "barrier" /\ m.mutation \in {"Pause", "PauseOnStartup"} THEN TRUE
            ELSE IF m.type = "barrier" /\ m.mutation = "Resume" THEN FALSE
            ELSE PausedAfter(SubSeq(out, 1, Len(out) - 1))

\* C6: from a barrier that pauses until the barrier that resumes, the executor
\* consumes no transaction message and leaves the active transactions and the
\* batch group as they are; each of its steps forwards the next upstream
\* message and nothing else.
DmlPauseStopsDml ==
    [][PausedAfter(dml.out) =>
          /\ Len(batch_reader') >= Len(batch_reader)
          /\ dml'.active_txn_map = dml.active_txn_map
          /\ dml'.batch_group = dml.batch_group
          /\ dml' # dml => (upstream # <<>> /\ NewOut = <<Head(upstream)>>)]_vars

\* paused in the middle of a transaction, a message of it waiting, and an
\* upstream chunk forwarded since the pause
DmlPauseStopsDmlWitness ==
    /\ PausedAfter(dml.out)
    /\ batch_reader # <<>>
    /\ \E t \in TxnIds : dml.active_txn_map[t].present /\ dml.active_txn_map[t].vec # <<>>
    /\ Last(dml.out).type = "chunk"
    /\ \E i \in DOMAIN dml.out : dml.out[i].mutation = "Pause"

\* C7: the rows of a transaction committed earlier leave before the rows of a
\* transaction committed later; rows still in the batch group leave after
\* everything already emitted.
DmlOrderedDelivery ==
    LET rows == RowsOf(dml.out) \o Flatten(dml.batch_group)
    IN \A a, b \in DOMAIN committed :
          a < b =>
             ~ \E i, j \in DOMAIN rows :
                  i < j /\ rows[i] = committed[b] /\ rows[j] = committed[a]

--------------------------------------------------------------------------
(* Claims about the local barrier worker *)

\* The epochs of the CompleteBarrier responses sent on one control stream.
CompletedEpochs(sent) ==
    LET done == SelectSeqIdx(sent, LAMBDA r : r.type = "CompleteBarrier")
    IN [i \in 1..Len(done) |-> done[i].epoch]

StrictlyIncreasing(q) == \A i, j \in DOMAIN q : i < j => q[i] < q[j]

AwaitsCollection(e) ==
    /\ worker.control_stream_handle.pair
    /\ \E i \in DOMAIN worker.state :
          worker.state[i].epoch = e /\ worker.state[i].remaining # {}

\* C2: every accepted barrier is eventually collected from all the actors of
\* to_collect, or the worker resets the control stream.
NoLostCollection == \A e \in Epochs : AwaitsCollection(e) ~> ~AwaitsCollection(e)

--------------------------------------------------------------------------
(* Further claims about the compactor *)

KeyAt(cs, pos) == Project(RecAt(cs, pos).row, stream_key)

\* Two positions of one chunk at consecutive indices.
AdjacentInChunk(p, q) == p[1] = q[1] /\ p[2] + 1 = q[2]

VisiblePositions(cs) == SelectSeqIdx(Positions(cs), LAMBDA p : RecAt(cs, p).vis)

\* C11: in the chunks of an in-place compaction every visible UpdateDelete is
\* followed at the next index of its chunk by a visible UpdateInsert of the
\* same stream key, every visible UpdateInsert is preceded by such an
\* UpdateDelete, and two visible records of one key that are not at adjacent
\* indices of one chunk are tagged Delete and Insert.
CompactorPairedUpdates ==
    compacted.tag = "Ok" =>
        LET cs == compacted.chunks
            vis == Range(VisiblePositions(cs))
        IN /\ \A p \in vis :
                RecAt(cs, p).op = "U-" =>
                    \E q \in vis : /\ AdjacentInChunk(p, q)
                                   /\ RecAt(cs, q).op = "U+"
                                   /\ KeyAt(cs, q) = KeyAt(cs, p)
           /\ \A q \in vis :
                RecAt(cs, q).op = "U+" =>
                    \E p \in vis : /\ AdjacentInChunk(p, q)
                                   /\ RecAt(cs, p).op = "U-"
                                   /\ KeyAt(cs, p) = KeyAt(cs, q)
           /\ \A p, q \in vis :
                (p # q /\ KeyAt(cs, p) = KeyAt(cs, q)
                    /\ ~AdjacentInChunk(p, q) /\ ~AdjacentInChunk(q, p)) =>
                    /\ RecAt(cs, p).op \in {"+", "-"}
                    /\ RecAt(cs, q).op \in {"+", "-"}

\* a Delete and an Insert of the input came out as an update pair
CompactorPairedUpdatesWitness ==
    /\ compacted.tag = "Ok"
    /\ \E p, q \in Range(VisiblePositions(compacted.chunks)) :
          /\ AdjacentInChunk(p, q)
          /\ RecAt(chunks, p).op = "-"
          /\ RecAt(chunks, q).op = "+"
          /\ RecAt(compacted.chunks, p).op = "U-"
          /\ RecAt(compacted.chunks, q).op = "U+"

\* The ops of the visible records of one key, in order, with UpdateDelete and
\* UpdateInsert read as Delete and Insert.
KeyPattern(cs, k) ==
    LET recs == SelectSeqIdx(VisibleRecords(cs),
                             LAMBDA r : Project(r.row, stream_key) = k)
    IN [i \in 1..Len(recs) |-> NormalizeUpdate(recs[i].op)]

OnePattern(cs) ==
    \A k \in AllKeys(chunks, stream_key) :
        KeyPattern(cs, k) \in {<<>>, <<"+">>, <<"-">>, <<"-", "+">>}

\* C12: after the compaction of a valid input, in place or reconstructed, the
\* visible records of every stream key are nothing, one Insert, one Delete,
\* or one Delete followed by one Insert.
CompactorOnePatternPerKey ==
    ValidChangeLog(chunks, stream_key) =>
        /\ compacted # NotRun => (compacted.tag = "Ok" /\ OnePattern(compacted.chunks))
        /\ reconstructed # NotRun =>
              (reconstructed.tag = "Ok" /\ OnePattern(reconstructed.chunks))

\* a key with three visible records in the input is left with one, in both modes
CompactorOnePatternPerKeyWitness ==
    /\ ValidChangeLog(chunks, stream_key)
    /\ compacted.tag = "Ok"
    /\ reconstructed.tag = "Ok"
    /\ \E k \in AllKeys(chunks, stream_key) :
          /\ Len(KeyPattern(chunks, k)) = 3
          /\ Len(KeyPattern(compacted.chunks, k)) = 1
          /\ Len(KeyPattern(reconstructed.chunks, k)) = 1

\* C13: in place, the compactor returns as many chunks as it was given, in
\* the same order, each with the same number of rows and the same row values
\* at the same indices; a visibility bit is cleared or left, never set.
CompactorPreservesChunks ==
    compacted.tag = "Ok" =>
        /\ Len(compacted.chunks) = Len(chunks)
        /\ \A ci \in DOMAIN chunks :
              /\ Len(compacted.chunks[ci]) = Len(chunks[ci])
              /\ \A i \in DOMAIN chunks[ci] :
                    /\ compacted.chunks[ci][i].row = chunks[ci][i].row
                    /\ compacted.chunks[ci][i].vis => chunks[ci][i].vis

\* two non-empty chunks, an op changed and a visibility bit cleared
CompactorPreservesChunksWitness ==
    /\ compacted.tag = "Ok"
    /\ \A ci \in DOMAIN chunks : chunks[ci] # <<>>
    /\ \E p \in Range(Positions(chunks)) :
          RecAt(compacted.chunks, p).op # RecAt(chunks, p).op
    /\ \E p \in Range(Positions(chunks)) :
          RecAt(chunks, p).vis /\ ~RecAt(compacted.chunks, p).vis

--------------------------------------------------------------------------
(* Further claims about the DML executor *)

\* The executor takes the message at the head of the DML side in this step.
TakesTxnMsg(kind) ==
    /\ batch_reader # <<>>
    /\ Head(batch_reader).kind = kind
    /\ batch_reader' = Tail(batch_reader)

\* The executor takes the message at the head of the upstream side in this step.
TakesUpstream ==
    /\ upstream # <<>>
    /\ upstream' = Tail(upstream)

\* C14: an End of a transaction of T < chunk_size rows with T + G <= chunk_size
\* (G the rows of the batch group) emits nothing and appends the transaction's
\* chunks to the batch group; the next barrier is preceded by the whole batch
\* group, coalesced into one chunk.
DmlSmallTxnCoalescing ==
    [][/\ (TakesTxnMsg("End") /\ dml.active_txn_map[Head(batch_reader).txn_id].present) =>
            LET buffer == dml.active_txn_map[Head(batch_reader).txn_id]
                T == SumCard(buffer.vec)
                G == SumCard(dml.batch_group)
            IN (T < ChunkSize /\ T + G <= ChunkSize) =>
                  /\ dml'.out = dml.out
                  /\ AtNext(dml')
                  /\ dml'.batch_group = dml.batch_group \o buffer.vec
                  /\ dml'.builder = dml.builder
       /\ (TakesUpstream /\ Head(upstream).type = "barrier" /\ dml.batch_group # <<>>) =>
            NewOut = <<ChunkMsg(Flatten(dml.batch_group)), Head(upstream)>>]_vars

\* two one-row transactions committed between two barriers came out as one
\* chunk of their rows between the barriers
DmlSmallTxnCoalescingWitness ==
    /\ ChunkSize >= 2
    /\ committed = <<2, 1>>
    /\ dml.out = <<BarrierMsg("None"), ChunkMsg(<<2, 1>>), BarrierMsg("None")>>

\* The chunk messages of a message sequence that carry rows of transaction t.
ChunksOf(msgs, t) == SelectSeq(msgs, LAMBDA m : HasRowOf(m, t))

\* C15: a Data chunk of a buffered transaction that does not bring the buffer
\* above MAX_CHUNK_FOR_ATOMICITY chunks emits nothing; the chunk that brings it
\* to MAX_CHUNK_FOR_ATOMICITY + 1 makes the step emit all buffered chunks in
\* arrival order, one per poll and nothing being taken meanwhile, and sets
\* overflow; every Data chunk after that is emitted in the step that
\* receives it.
DmlLargeTxnOverflow ==
    [][SuspendedTurn /\ ((TakesTxnMsg("Data") /\ dml.active_txn_map[Head(batch_reader).txn_id].present) =>
          LET t == Head(batch_reader).txn_id
              chunk == Head(batch_reader).chunk
              buffer == dml.active_txn_map[t]
              vec == Append(buffer.vec, chunk)
          IN /\ (~buffer.overflow /\ Len(buffer.vec) < MAX_CHUNK_FOR_ATOMICITY) =>
                   /\ dml'.out = dml.out
                   /\ AtNext(dml')
                   /\ dml'.active_txn_map[t].vec = vec
                   /\ ~dml'.active_txn_map[t].overflow
             /\ (~buffer.overflow /\ Len(buffer.vec) = MAX_CHUNK_FOR_ATOMICITY) =>
                   /\ NewOut = [i \in 1..(MAX_CHUNK_FOR_ATOMICITY + 1) |-> ChunkMsg(vec[i])]
                   /\ dml'.out = Append(dml.out, ChunkMsg(vec[1]))
                   /\ TurnEnd.active_txn_map[t].overflow
                   /\ TurnEnd.active_txn_map[t].vec = <<>>
                   /\ dml'.active_txn_map[t].vec = <<>>
             /\ buffer.overflow =>
                   /\ NewOut = <<ChunkMsg(chunk)>>
                   /\ dml'.out = Append(dml.out, ChunkMsg(chunk))
                   /\ dml'.active_txn_map[t] = buffer
             /\ ~buffer.overflow => Len(buffer.vec) <= MAX_CHUNK_FOR_ATOMICITY)]_vars

\* transaction 1 has overflowed and one more chunk of it has been emitted after
\* the MAX_CHUNK_FOR_ATOMICITY + 1 chunks drained at the overflow
DmlLargeTxnOverflowWitness ==
    /\ dml.active_txn_map[1].present
    /\ dml.active_txn_map[1].overflow
    /\ Len(ChunksOf(dml.out, 1)) = MAX_CHUNK_FOR_ATOMICITY + 2

\* C16: no row of a transaction rolled back before it overflowed is ever
\* emitted or pending, and a step that takes a Rollback, overflowed or not,
\* removes the buffer, emits nothing and leaves the output and the batch group
\* as they are.
DmlRollbackDiscards ==
    /\ [](\A t \in TxnIds : rolled_back[t] = "clean" =>
              /\ ChunksOf(dml.out \o dml.yielding, t) = <<>>
              /\ CountOf(Flatten(dml.batch_group), t) = 0
              /\ CountOf(Flatten(dml.after.batch_group), t) = 0
              /\ CountOf(dml.builder, t) = 0
              /\ ~dml.active_txn_map[t].present)
    /\ [][(TakesTxnMsg("Rollback") /\ dml.active_txn_map[Head(batch_reader).txn_id].present) =>
             /\ dml'.out = dml.out
             /\ AtNext(dml')
             /\ dml'.batch_group = dml.batch_group
             /\ dml'.builder = dml.builder
             /\ dml'.active_txn_map =
                   [dml.active_txn_map EXCEPT ![Head(batch_reader).txn_id] = NoBuffer]]_vars

\* transaction 2 was rolled back with a row buffered and transaction 1 after
\* it overflowed; a barrier has been forwarded since
DmlRollbackDiscardsWitness ==
    /\ rolled_back[2] = "clean"
    /\ rolled_back[1] = "overflow"
    /\ Len(ChunksOf(dml.out, 1)) = MAX_CHUNK_FOR_ATOMICITY + 1
    /\ Last(dml.out).type = "barrier"
    /\ Len(dml.out) > 1

\* C24: an End that cannot be coalesced first emits every row of the batch
\* group; with T >= chunk_size the transaction's chunks follow unchanged and in
\* arrival order, nothing of it having been emitted before, and the batch group
\* is left empty; with T < chunk_size and T + G > chunk_size nothing of the
\* transaction is emitted and its chunks are the new batch group once the
\* flushed chunks are out. The consumer gets the items one per poll, nothing
\* being taken meanwhile.
DmlFlushFirstAtEnd ==
    [][SuspendedTurn /\ ((TakesTxnMsg("End") /\ dml.active_txn_map[Head(batch_reader).txn_id].present) =>
          LET t == Head(batch_reader).txn_id
              vec == dml.active_txn_map[t].vec
              T == SumCard(vec)
              G == SumCard(dml.batch_group)
              n == Len(NewOut) - Len(vec)
          IN /\ T >= ChunkSize =>
                   /\ ChunksOf(dml.out, t) = <<>>
                   /\ n >= 0
                   /\ RowsOf(SubSeq(NewOut, 1, n)) = Flatten(dml.batch_group)
                   /\ SubSeq(NewOut, n + 1, Len(NewOut)) = [i \in 1..Len(vec) |-> ChunkMsg(vec[i])]
                   /\ dml'.batch_group = <<>>
                   /\ TurnEnd.batch_group = <<>>
             /\ (T < ChunkSize /\ T + G > ChunkSize) =>
                   /\ NewOut # <<>>
                   /\ RowsOf(NewOut) = Flatten(dml.batch_group)
                   /\ \A i \in DOMAIN NewOut : NewOut[i].type = "chunk"
                   /\ dml'.batch_group = <<>>
                   /\ TurnEnd.batch_group = vec
             /\ dml'.builder = <<>> /\ TurnEnd.builder = <<>>)]_vars

\* two one-row transactions filled the batch group; the End of a third one-row
\* transaction flushed their rows and left its own row as the batch group
DmlFlushFirstAtEndWitness ==
    /\ ChunkSize = 2
    /\ committed = <<3, 2, 1>>
    /\ Last(dml.out) = ChunkMsg(<<3, 2>>)
    /\ dml.batch_group = <<<<1>>>>

\* C25: every buffer of the active-transaction map holds at most
\* MAX_CHUNK_FOR_ATOMICITY chunks; a buffer with overflow set is empty, and
\* overflow stays set as long as the transaction is in the map.
DmlTxnBufferBound ==
    /\ [](\A t \in TxnIds :
            /\ Len(dml.active_txn_map[t].vec) <= MAX_CHUNK_FOR_ATOMICITY
            /\ dml.active_txn_map[t].overflow =>
                  (dml.active_txn_map[t].present /\ dml.active_txn_map[t].vec = <<>>))
    /\ [][\A t \in TxnIds :
            (dml.active_txn_map[t].overflow /\ dml'.active_txn_map[t].present) =>
                dml'.active_txn_map[t].overflow]_vars

\* transaction 1 has overflowed, two more of its chunks went out since, and
\* nothing is waiting: its buffer is still in the map, empty
DmlTxnBufferBoundWitness ==
    /\ dml.active_txn_map[1].present
    /\ dml.active_txn_map[1].overflow
    /\ dml.active_txn_map[1].vec = <<>>
    /\ Len(ChunksOf(dml.out, 1)) = MAX_CHUNK_FOR_ATOMICITY + 3
    /\ batch_reader = <<>>

\* The executor takes the message at the head of the DML side, whatever it is.
TakesAnyTxnMsg ==
    /\ ~dml.panicked
    /\ batch_reader # <<>>
    /\ Head(batch_reader).kind # "Error"
    /\ batch_reader' = Tail(batch_reader)

\* The panic message for each kind of TxnMsg.
PanicTextOf(kind) ==
    CASE kind = "Begin" -> "Transaction id collision"
      [] kind = "End" -> "Receive an unexpected transaction end message"
      [] kind = "Rollback" -> "Receive an unexpected transaction rollback message"
      [] kind = "Data" -> "Receive an unexpected transaction data message"

\* C26: Begin for an id in the active map, and End, Data or Rollback for an id
\* not in it, make the executor panic with nothing emitted and nothing else
\* changed; every other TxnMsg is processed without panic, and End and
\* Rollback leave the id unknown again.
DmlFailFast ==
    [][TakesAnyTxnMsg =>
          LET m == Head(batch_reader)
              known == dml.active_txn_map[m.txn_id].present
          IN IF (m.kind = "Begin") = known
             THEN /\ dml'.panicked
                  /\ dml'.panic = [msg |-> PanicTextOf(m.kind), txn_id |-> m.txn_id]
                  /\ dml'.out = dml.out
                  /\ dml'.active_txn_map = dml.active_txn_map
                  /\ dml'.batch_group = dml.batch_group
             ELSE /\ ~dml'.panicked
                  /\ ~dml'.ended
                  /\ (m.kind = "Begin") => dml'.active_txn_map[m.txn_id] = EmptyBuffer
                  /\ (m.kind \in {"End", "Rollback"}) =>
                        ~dml'.active_txn_map[m.txn_id].present]_vars

\* a transaction id was committed, used again by a second transaction that was
\* committed too, and a further End for it made the executor panic
DmlFailFastWitness ==
    /\ dml.panicked
    /\ dml.panic.msg = "Receive an unexpected transaction end message"
    /\ Cardinality({i \in DOMAIN committed : committed[i] = dml.panic.txn_id}) = 2

--------------------------------------------------------------------------
(* Further claims about the barrier worker *)

\* The worker takes the NewControlStream operation at the head of actor_op_rx
\* in this step, and runs up to the reset of its actors.
HandlesNewControlStream ==
    /\ worker.pc = "select"
    /\ actor_op_rx # <<>>
    /\ Head(actor_op_rx).type = "NewControlStream"
    /\ actor_op_rx' = Tail(actor_op_rx)

\* The reset of the actors is over in this step: the worker goes on to
\* install the new handle.
InstallsControlStream == worker.pc = "resetting" /\ worker'.pc # "resetting"

\* The worker handles the request at the head of the control stream in this
\* step: no earlier branch of the select is ready, the request is taken, and
\* no epoch leaves the managed state (that is the branch of the completed
\* epochs, whose error drops the request stream as well).
HandlesRequest ==
    /\ worker.pc = "select"
    /\ ~CompletedEpochReady /\ ~BarrierEventReady /\ ~ActorFailureReady /\ ~ActorOpReady
    /\ RequestReady
    /\ Len(requests') < Len(requests)
    /\ Len(worker'.state) >= Len(worker.state)

ReplacedStatus == ErrStatus("control stream has been reset to a new one", {}, NoError)

\* C17: taking NewControlStream sends the terminal status on the old handle
\* if there is one and leaves the worker without a handle, its state still
\* there; until the reset of the actors is over the worker has no handle, no
\* request is read and no response goes out; then the state is reset, the new handle installed
\* and Init sent on it, no other stream being touched. Init is the first
\* response on every handle and is sent once, and whenever the worker can
\* read a request from its handle the Init response has been sent on it.
ControlStreamReplacement ==
    /\ [](\A s \in StreamIds :
            /\ responses[s] # <<>> =>
                  /\ responses[s][1] = InitResponse
                  /\ \A i \in 2..Len(responses[s]) : responses[s][i].type # "Init"
            /\ (worker.control_stream_handle.pair /\ worker.control_stream_handle.id = s) =>
                  responses[s] # <<>>)
    /\ [][HandlesNewControlStream =>
            LET old == worker.control_stream_handle
                new == Head(actor_op_rx).handle
            IN /\ old.pair => responses'[old.id] = Append(responses[old.id], ReplacedStatus)
               /\ \A s \in StreamIds :
                     ~(old.pair /\ s = old.id) => responses'[s] = responses[s]
               /\ responses'[new] = <<>>
               /\ worker' = [worker EXCEPT !.control_stream_handle.pair = FALSE,
                                           !.pc = "resetting",
                                           !.new_control_stream = Head(actor_op_rx)]]_vars
    /\ [][(worker.pc = "resetting" /\ ~InstallsControlStream) =>
            /\ worker'.control_stream_handle = worker.control_stream_handle
            /\ worker'.new_control_stream = worker.new_control_stream
            /\ responses' = responses
            /\ requests' = requests]_vars
    /\ [][InstallsControlStream =>
            LET new == worker.new_control_stream.handle
            IN /\ worker' = [NewWorker(worker.watermark_epoch) EXCEPT
                               !.control_stream_handle = NewHandle(new)]
               /\ responses'[new] = <<InitResponse>>
               /\ requests' = worker.new_control_stream.request_stream
               /\ \A s \in StreamIds : s # new => responses'[s] = responses[s]]_vars

\* stream 1 was answered, then replaced by stream 2, which came with a request
\* on it: stream 1 ends with the terminal status, stream 2 holds Init only and
\* the request is still waiting
ControlStreamReplacementWitness ==
    /\ worker.control_stream_handle = NewHandle(2)
    /\ responses[1] = <<InitResponse, ReplacedStatus>>
    /\ responses[2] = <<InitResponse>>
    /\ ~meta.built
    /\ requests # <<>>

\* C18: once NewControlStream is handled the worker holds no in-flight epoch,
\* no barrier sender, no recorded failure and no root failure; every in-flight
\* epoch was injected on the worker's current stream, and every CompleteBarrier
\* is sent on the stream its epoch was injected on.
ReplacementCancelsInFlight ==
    /\ [][InstallsControlStream =>
            /\ worker'.state = <<>>
            /\ worker'.barrier_senders = [a \in Actors |-> 0]
            /\ FailedActors(worker') = {}
            /\ worker'.root_failure = NoError]_vars
    /\ [](\A i \in DOMAIN worker.state :
            meta.stream_of[worker.state[i].epoch] = worker.control_stream_handle.id)
    /\ [](\A s \in StreamIds : \A i \in DOMAIN responses[s] :
            responses[s][i].type = "CompleteBarrier" =>
                meta.stream_of[responses[s][i].epoch] = s)

\* the worker took NewControlStream and waits for the reset while it holds an
\* in-flight epoch, a barrier sender, a recorded failure and a root failure
ReplacementCancelsInFlightWitness ==
    /\ worker.pc = "resetting"
    /\ worker.state # <<>>
    /\ worker.barrier_senders # [a \in Actors |-> 0]
    /\ FailedActors(worker) # {}
    /\ worker.root_failure # NoError

\* C19: a step that handles an InjectBarrier naming a to_collect actor the
\* worker has no handle of leaves the managed state as it is and resets the
\* control stream with a terminal status whose message lists every missing
\* actor id.
InjectMissingActorRejected ==
    [][HandlesRequest =>
          LET req == Head(requests)
              h == worker.control_stream_handle
              missing == req.to_collect \ worker.handles
          IN missing # {} =>
                /\ worker'.state = worker.state
                /\ worker'.watermark_epoch = worker.watermark_epoch
                /\ ~worker'.control_stream_handle.pair
                /\ Len(responses'[h.id]) = Len(responses[h.id]) + 1
                /\ Last(responses'[h.id]).type = "Err"
                /\ missing \subseteq Last(responses'[h.id]).err.actors]_vars

\* the control stream ended with the status that lists the actors not found,
\* one of which the worker does know and another of which it has dropped
InjectMissingActorRejectedWitness ==
    \E s \in StreamIds :
        /\ responses[s] # <<>>
        /\ Last(responses[s]).type = "Err"
        /\ \E a \in Last(responses[s]).err.actors \ worker.handles :
              actors[a].st = "dropped"
        /\ Last(responses[s]).err.actors \cap worker.handles # {}
        /\ ~worker.control_stream_handle.pair
        /\ worker.control_stream_handle.id = s

\* The errors of actors that a status can report.
IsActorError(e) == e.kind \in ActorErrorKinds /\ e.actor_id # NoId

\* C20: whenever the worker resets the control stream with the error of an
\* actor, that error has the highest score among the recorded failures.
RootCauseSelection ==
    [][\A s \in StreamIds :
          (/\ Len(responses'[s]) > Len(responses[s])
           /\ Last(responses'[s]).type = "Err"
           /\ IsActorError(Last(responses'[s]).err)) =>
              \A e \in RecordedErrors(worker') :
                  StreamErrorScore(e) <= StreamErrorScore(Last(responses'[s]).err)]_vars

\* The worker takes the item at the head of the request stream, and the stream
\* yields an error or its end there.
RequestStreamFailsNow == HandlesRequest /\ Head(requests).type # "InjectBarrier"

\* The status next_request sends for what the request stream yielded.
RequestFailedStatus(item) ==
    ErrStatus(IF item.type = "Err" THEN "failed to get request" ELSE "end of stream",
              {}, NoError)

\* C21: when the request stream yields an error or ends, the worker sends the
\* terminal status on the response sender and the handle is None afterwards,
\* nothing else of the worker changing; while the handle is None the worker
\* takes no request and sends no response, and it still takes a step whenever
\* one of its other sources is ready.
NextRequestResets ==
    /\ [][RequestStreamFailsNow =>
            LET h == worker.control_stream_handle
            IN /\ ~worker'.control_stream_handle.pair
               /\ worker' = [worker EXCEPT !.control_stream_handle.pair = FALSE]
               /\ responses' = IF SenderClosed(responses, h.id)
                               THEN responses
                               ELSE [responses EXCEPT
                                       ![h.id] = Append(@, RequestFailedStatus(Head(requests)))]
               /\ UNCHANGED <<actors, actor_op_rx, barrier_event_rx, actor_failure_rx>>]_vars
    /\ [][(~worker.control_stream_handle.pair /\ ~InstallsControlStream) =>
            /\ Len(requests') >= Len(requests)
            /\ \A s \in StreamIds :
                  \/ responses'[s] = responses[s]
                  \/ responses'[s] = Append(responses[s], ReceiverDropped)]_vars
    /\ [](~worker.control_stream_handle.pair /\ worker.pc = "select"
            /\ (CompletedEpochReady \/ BarrierEventReady \/ ActorFailureReady \/ ActorOpReady)
          => ENABLED WorkerStep)

\* the handle is None since its request stream ended or failed, the status
\* is the last response on it, and a barrier event waits for the worker
NextRequestResetsWitness ==
    LET h == worker.control_stream_handle
    IN /\ ~h.pair
       /\ h.id # NoId
       /\ responses[h.id] # <<>>
       /\ Last(responses[h.id]) \in {RequestFailedStatus(RequestStreamErr),
                                     RequestFailedStatus(RequestStreamEnd)}
       /\ barrier_event_rx # <<>>
       /\ worker.state # <<>>

\* The worker takes an InjectBarrier request in this step and send_barrier
\* returns Ok: the control stream is not reset.
InjectReturnsOk ==
    /\ HandlesRequest
    /\ Head(requests).type = "InjectBarrier"
    /\ worker'.control_stream_handle.pair

\* The barriers a Stop mutation for actor a is on, among those a has got.
StopsGot(a) == {i \in DOMAIN actors[a].rx : a \in actors[a].rx[i].stop}

\* C22: when send_barrier accepts a barrier with a Stop mutation, each actor
\* it stops that is in to_send has senders and gets one clone of the barrier
\* on each of them, and no actor it stops has a sender afterwards, the other
\* actors keeping theirs; and an actor that got a barrier stopping it gets no
\* barrier of another epoch after it.
StopMutationDelivery ==
    /\ [][(InjectReturnsOk /\ Head(requests).stop # {}) =>
            LET req == Head(requests)
            IN \A a \in Actors :
                 /\ (a \in req.stop /\ a \in req.to_send) =>
                       /\ worker.barrier_senders[a] >= 1
                       /\ actors'[a].rx =
                             actors[a].rx \o Clones(BarrierClone(req), worker.barrier_senders[a])
                 /\ worker'.barrier_senders[a] =
                       IF a \in req.stop THEN 0 ELSE worker.barrier_senders[a]]_vars
    /\ [](\A a \in Actors : \A i \in StopsGot(a) :
             /\ worker.barrier_senders[a] = 0
             /\ \A j \in DOMAIN actors[a].rx :
                   j > i => actors[a].rx[j] = actors[a].rx[i])

\* a source actor with two senders got both clones of the barrier that stops
\* it, and a later barrier that names it in to_send was answered with the
\* barrier-send error
StopMutationDeliveryWitness ==
    \E a \in Sources, s \in StreamIds :
        /\ Len(actors[a].rx) >= 2
        /\ a \in Last(actors[a].rx).stop
        /\ actors[a].rx[Len(actors[a].rx) - 1] = Last(actors[a].rx)
        /\ responses[s] # <<>>
        /\ Last(responses[s]).type = "Err"
        /\ Last(responses[s]).err = BarrierSendError(a)
        /\ meta.stream_of[Last(actors[a].rx).epoch] = s
        /\ Running(actors[a])

\* The epochs with an entry in the managed state, and the entry of one.
IssuedEpochs(state) == {state[i].epoch : i \in DOMAIN state}

\* The sync of epoch e starts in this step: its entry becomes Running.
SyncStarts(e) ==
    /\ e \in IssuedEpochs(worker'.state)
    /\ EntryOf(worker'.state, e).status = "Running"
    /\ ~(e \in IssuedEpochs(worker.state) /\ EntryOf(worker.state, e).status = "Running")

\* The worker handles the report that actor a collected the barrier of epoch e.
HandlesCollect(a, e) ==
    /\ worker.pc = "select"
    /\ ~CompletedEpochReady
    /\ BarrierEventReady
    /\ Head(barrier_event_rx) = ReportActorCollected(a, e)

\* The InjectBarrier requests that wait for the worker, on its stream or on a
\* stream it has not installed yet.
WaitingRequests ==
    {requests[i] : i \in {j \in DOMAIN requests : requests[j].type = "InjectBarrier"}}
    \cup UNION {{actor_op_rx[k].request_stream[i] : i \in DOMAIN actor_op_rx[k].request_stream} :
                   k \in DOMAIN actor_op_rx}

\* C23: the sync of an epoch starts only in the step that handles the last
\* awaited collect report of a checkpoint entry whose sync has not started;
\* an entry whose sync has started or that is done never goes back, an entry
\* is made only from its one request, each epoch is requested once, so the
\* sync of an epoch starts at most once; a barrier that is no checkpoint
\* starts no sync and is Done with an Ok result when its last report is handled.
SyncDiscipline ==
    /\ [][\A e \in Epochs : SyncStarts(e) =>
            /\ e \in IssuedEpochs(worker.state)
            /\ EntryOf(worker.state, e).status = "Issued"
            /\ EntryOf(worker.state, e).kind = "Checkpoint"
            /\ EntryOf(worker'.state, e).remaining = {}
            /\ \E a \in EntryOf(worker.state, e).to_collect :
                  /\ HandlesCollect(a, e)
                  /\ EntryOf(worker.state, e).remaining = {a}]_vars
    /\ [][\A e \in IssuedEpochs(worker.state) :
            LET old == EntryOf(worker.state, e)
            IN /\ (old.status # "Issued" /\ e \in IssuedEpochs(worker'.state)) =>
                     /\ EntryOf(worker'.state, e).status # "Issued"
                     /\ old.status = "Done" => EntryOf(worker'.state, e).status = "Done"
               /\ (old.kind # "Checkpoint" /\ old.remaining # {}
                     /\ e \in IssuedEpochs(worker'.state)
                     /\ EntryOf(worker'.state, e).remaining = {}) =>
                        /\ EntryOf(worker'.state, e).status = "Done"
                        /\ EntryOf(worker'.state, e).ok]_vars
    /\ [][\A e \in IssuedEpochs(worker'.state) \ IssuedEpochs(worker.state) :
            /\ HandlesRequest
            /\ Head(requests).epoch = e
            /\ EntryOf(worker'.state, e).status = "Issued"
            /\ \A r \in WaitingRequests' : r.epoch # e]_vars
    /\ [](/\ \A r \in WaitingRequests : r.epoch < meta.next_epoch
          /\ \A r1, r2 \in WaitingRequests : r1.epoch = r2.epoch => r1 = r2
          /\ \A i \in DOMAIN worker.state :
                /\ worker.state[i].epoch < meta.next_epoch
                /\ \A r \in WaitingRequests : r.epoch # worker.state[i].epoch
                /\ worker.state[i].status = "Issued" <=> worker.state[i].remaining # {}
                /\ worker.state[i].status = "Running" => worker.state[i].kind = "Checkpoint")

\* the sync of a collected checkpoint epoch runs, behind an epoch that is no
\* checkpoint and became Done without one
SyncDisciplineWitness ==
    /\ Len(worker.state) = 2
    /\ worker.state[1].kind # "Checkpoint"
    /\ worker.state[1].status = "Done"
    /\ worker.state[2].kind = "Checkpoint"
    /\ worker.state[2].status = "Running"

\* The worker holds the pair of the handle of stream s.
HandleLive(w, s) == w.control_stream_handle.pair /\ w.control_stream_handle.id = s

\* C27: the handle of a stream loses its pair only in a step that puts a
\* terminal error on it as its last response, or that finds its sender closed
\* and sends nothing; a new handle whose sender is closed already loses its
\* pair when Init is sent; while the handle has no pair, handling a completed
\* epoch, a failure or anything but the installation of a new handle sends
\* no response; a
\* stream carries at most one terminal error, and nothing follows it.
HandleSilentOnceReset ==
    /\ [][\A s \in StreamIds :
            /\ (HandleLive(worker, s) /\ ~HandleLive(worker', s)) =>
                  \/ /\ ~SenderClosed(responses, s)
                     /\ Len(responses'[s]) = Len(responses[s]) + 1
                     /\ SubSeq(responses'[s], 1, Len(responses[s])) = responses[s]
                     /\ Last(responses'[s]).type = "Err"
                  \/ /\ SenderClosed(responses, s)
                     /\ responses'[s] = responses[s]
            /\ (InstallsControlStream /\ worker.new_control_stream.handle = s) =>
                  (HandleLive(worker', s) <=> ~SenderClosed(responses, s))
            /\ (~worker.control_stream_handle.pair /\ ~InstallsControlStream) =>
                  \/ responses'[s] = responses[s]
                  \/ responses'[s] = Append(responses[s], ReceiverDropped)]_vars
    /\ [](\A s \in StreamIds : \A i \in DOMAIN responses[s] :
            /\ responses[s][i].type \in {"Err", "Dropped"} => i = Len(responses[s])
            /\ HandleLive(worker, s) => responses[s][i].type # "Err")

\* the first handle lost its pair without a terminal error, its receiver
\* being gone; the second got the status of its ended request stream, and an
\* epoch completed on it is ready to be reported
HandleSilentOnceResetWitness ==
    /\ MaxStreams >= 2
    /\ responses[1] = <<InitResponse, ReceiverDropped>>
    /\ ~worker.control_stream_handle.pair
    /\ worker.control_stream_handle.id = 2
    /\ Last(responses[2]) = RequestFailedStatus(RequestStreamEnd)
    /\ CompletedEpochReady
    /\ EntryOf(worker.state, NextCompletedEpoch(worker.state)).ok

\* C28: the watermark epoch changes only in a step in which the worker
\* handles an InjectBarrier of kind Initial, and then to the epoch of that
\* barrier; such a barrier whose to_collect actors are all known sets it; and
\* whenever the managed state holds an Initial barrier the watermark epoch is
\* its epoch.
WatermarkEpochWrites ==
    /\ [][/\ worker'.watermark_epoch # worker.watermark_epoch =>
                /\ HandlesRequest
                /\ Head(requests).type = "InjectBarrier"
                /\ Head(requests).kind = "Initial"
                /\ worker'.watermark_epoch = Head(requests).epoch
          /\ (/\ HandlesRequest
              /\ Head(requests).type = "InjectBarrier"
              /\ Head(requests).kind = "Initial"
              /\ Head(requests).to_collect \subseteq worker.handles) =>
                 worker'.watermark_epoch = Head(requests).epoch]_vars
    /\ [](\A i \in DOMAIN worker.state :
            worker.state[i].kind = "Initial" =>
                worker.watermark_epoch = worker.state[i].epoch)

\* the Initial barrier of epoch 1 is in the managed state with a Checkpoint
\* barrier accepted after it, and the watermark epoch is still 1
WatermarkEpochWritesWitness ==
    /\ Len(worker.state) = 2
    /\ worker.state[1].kind = "Initial"
    /\ worker.state[2].kind = "Checkpoint"
    /\ worker.watermark_epoch = worker.state[1].epoch
    /\ worker.watermark_epoch # NoId

\* The worker handles an InjectBarrier in this step, and an actor of its
\* to_collect has a recorded failure.
InjectsOnFailedActor ==
    /\ HandlesRequest
    /\ Head(requests).type = "InjectBarrier"
    /\ Head(requests).to_collect \cap FailedActors(worker) # {}

\* The step rejects the injection with the root failure if there is one and
\* else with the error of a failed to_collect actor: the control stream is
\* reset with it, and the barrier is neither recorded nor delivered.
RejectsWithFailure ==
    LET h == worker.control_stream_handle
        req == Head(requests)
    IN /\ ~worker'.control_stream_handle.pair
       /\ Len(responses'[h.id]) = Len(responses[h.id]) + 1
       /\ Last(responses'[h.id]).type = "Err"
       /\ Last(responses'[h.id]).msg = "get error"
       /\ IF worker.root_failure # NoError
          THEN Last(responses'[h.id]).err = worker.root_failure
          ELSE \E a \in req.to_collect \cap FailedActors(worker) :
                  Last(responses'[h.id]).err = worker.failure_actors[a]
       /\ worker'.state = worker.state
       /\ actors' = actors

\* C30 as stated: every injection with a failed actor in to_collect is
\* rejected with the root failure or that actor's error.
InjectAfterFailureAsStated == [][InjectsOnFailedActor => RejectsWithFailure]_vars

\* C30: an injection whose to_collect actors are all known locally and one
\* of which has a recorded failure is rejected with the root failure if one
\* is set and else with the error of such an actor, the barrier is neither
\* recorded nor delivered, and the control stream is reset; no barrier is
\* recorded while an actor of its to_collect has a recorded failure.
InjectAfterFailure ==
    /\ [][(InjectsOnFailedActor /\ Head(requests).to_collect \subseteq worker.handles)
            => RejectsWithFailure]_vars
    /\ [][InjectsOnFailedActor =>
            /\ ~worker'.control_stream_handle.pair
            /\ worker'.state = worker.state
            /\ actors' = actors]_vars
    /\ [][\A e \in IssuedEpochs(worker'.state) \ IssuedEpochs(worker.state) :
            EntryOf(worker'.state, e).to_collect \cap FailedActors(worker) = {}]_vars

\* the control stream was reset with the root failure, the error of the one
\* actor that failed, by an injection that collects from both actors; both
\* are known, and nothing was recorded or delivered
InjectAfterFailureWitness ==
    \E s \in StreamIds, a \in Actors :
        /\ responses[s] # <<>>
        /\ Last(responses[s]).type = "Err"
        /\ Last(responses[s]).msg = "get error"
        /\ Last(responses[s]).err = worker.root_failure
        /\ worker.root_failure = worker.failure_actors[a]
        /\ FailedActors(worker) = {a}
        /\ worker.handles = Actors
        /\ worker.control_stream_handle.id = s
        /\ worker.state = <<>>
        /\ meta.stream_of[1] = s
        /\ \A b \in Actors : actors[b].rx = <<>> /\ actors[b].todo = <<>>

\* The worker handles an InjectBarrier in this step that passes the checks of
\* send_barrier: its to_collect actors are known and none has a recorded failure.
InjectPassesChecks ==
    /\ HandlesRequest
    /\ Head(requests).type = "InjectBarrier"
    /\ Head(requests).to_collect \subseteq worker.handles
    /\ Head(requests).to_collect \cap FailedActors(worker) = {}

\* The to_send actors of the request at the head that cannot be sent to.
UnreachableNow ==
    {a \in Head(requests).to_send :
        worker.barrier_senders[a] = 0 \/ actors[a].st = "failed"}

\* C29: an injection that passes the checks records the barrier with its
\* to_collect, also when a send fails afterwards; if every to_send actor has
\* a sender and none is closed, each to_send actor gets one clone per
\* registered sender, no other actor gets one, and the control stream stays;
\* otherwise the control stream is reset with the barrier-send error of a
\* to_send actor that cannot be sent to, which gets nothing.
BarrierFanOut ==
    [][InjectPassesChecks =>
         LET req == Head(requests)
             h == worker.control_stream_handle
         IN /\ worker'.state = TransformToIssued(worker.state, req, req.to_collect)
            /\ EntryOf(worker'.state, req.epoch).to_collect = req.to_collect
            /\ EntryOf(worker'.state, req.epoch).status = "Issued"
            /\ IF UnreachableNow = {}
               THEN /\ worker'.control_stream_handle.pair
                    /\ responses' = responses
                    /\ \A a \in Actors :
                          actors'[a].rx =
                             IF a \in req.to_send
                             THEN actors[a].rx
                                     \o Clones(BarrierClone(req), worker.barrier_senders[a])
                             ELSE actors[a].rx
                    /\ \A a \in req.to_send : Len(actors'[a].rx) > Len(actors[a].rx)
               ELSE /\ ~worker'.control_stream_handle.pair
                    /\ Len(responses'[h.id]) = Len(responses[h.id]) + 1
                    /\ Last(responses'[h.id]).type = "Err"
                    /\ Last(responses'[h.id]).msg = "get error"
                    /\ \E a \in UnreachableNow :
                          Last(responses'[h.id]).err = BarrierSendError(a)
                    /\ \A a \in (Actors \ req.to_send) \cup UnreachableNow :
                          actors'[a].rx = actors[a].rx]_vars

\* a source actor got the first barrier on both its senders and exited; the
\* next barrier, to be sent to it and collected from the other actor, was
\* recorded, and the control stream was reset with the barrier-send error
BarrierFanOutWitness ==
    \E a \in Sources, s \in StreamIds :
        /\ Len(actors[a].rx) = 2
        /\ actors[a].rx[1] = actors[a].rx[2]
        /\ actors[a].st = "failed"
        /\ responses[s] # <<>>
        /\ Last(responses[s]).type = "Err"
        /\ Last(responses[s]).err = BarrierSendError(a)
        /\ worker.state # <<>>
        /\ Last(worker.state).epoch > actors[a].rx[1].epoch
        /\ a \notin Last(worker.state).to_collect
        /\ meta.stream_of[Last(worker.state).epoch] = s

--------------------------------------------------------------------------
(* Claims about failures, sync errors and the order of the select *)

\* The worker takes a failure off actor_failure_rx in this step.
ReceivesFailure == Len(actor_failure_rx') < Len(actor_failure_rx) /\ actor_failure_rx # <<>>

\* notify_failure ends in this step for the actor it was called for.
NotifyEnds(a) ==
    \/ /\ worker.pc = "select"
       /\ ~CompletedEpochReady /\ ~BarrierEventReady /\ ActorFailureReady
       /\ Head(actor_failure_rx).actor_id = a
       /\ ReceivesFailure
       /\ worker'.pc = "select"
    \/ /\ worker.pc = "window"
       /\ worker.notifying = a
       /\ worker'.pc = "select"

\* C31: between two handlers no actor with a recorded failure is awaited by
\* an in-flight epoch of a control stream that was not reset; the status of
\* the reset lists the epochs that await the actor and carries the root
\* error; the failure of an actor that no in-flight epoch awaits sends nothing
\* and leaves the control stream.
CollectionBlockage ==
    /\ [](worker.pc = "select" =>
            \A a \in FailedActors(worker) :
                EpochsAwaitOnActor(worker.state, a) # {} =>
                    ~worker.control_stream_handle.pair)
    /\ [][\A a \in Actors : NotifyEnds(a) =>
            LET h == worker.control_stream_handle
                stuck == EpochsAwaitOnActor(worker.state, a)
            IN IF stuck # {} /\ h.pair
               THEN /\ ~worker'.control_stream_handle.pair
                    /\ Len(responses'[h.id]) = Len(responses[h.id]) + 1
                    /\ Last(responses'[h.id]).type = "Err"
                    /\ Last(responses'[h.id]).msg = "failed to collect barrier"
                    /\ Last(responses'[h.id]).epochs = stuck
                    /\ Last(responses'[h.id]).err = worker'.root_failure
               ELSE /\ responses' = responses
                    /\ worker'.control_stream_handle = h]_vars

\* The worker handles the epoch that next_completed_epoch yields in this
\* step.
HandlesCompletedEpoch ==
    /\ worker.pc = "select"
    /\ EpochCompletionPossible
    /\ Len(worker'.state) < Len(worker.state)
    /\ UNCHANGED actor_op_rx

\* C32: when the worker handles a completed epoch whose sync returned an
\* error, the entry of the epoch is removed and the other entries stay, no
\* CompleteBarrier is sent, and the control stream is reset with the terminal
\* status that carries the error; with a handle that is None nothing is sent.
\* An epoch whose sync succeeded is answered with its CompleteBarrier.
SyncErrorResets ==
    [][HandlesCompletedEpoch =>
         LET e == NextCompletedEpoch(worker.state)
             h == worker.control_stream_handle
             entry == EntryOf(worker.state, e)
         IN /\ entry.status = "Done"
            /\ worker'.state = SelectSeqIdx(worker.state, LAMBDA en : en # entry)
            /\ Len(worker'.state) = Len(worker.state) - 1
            /\ IF ~h.pair
               THEN responses' = responses
               ELSE /\ responses' = [responses EXCEPT ![h.id] =
                          Append(@, IF entry.ok
                                    THEN CompleteBarrier(e)
                                    ELSE ErrStatus("get error", {}, SyncError))]
                    /\ worker'.control_stream_handle.pair = entry.ok]_vars

\* the control stream ended with the status of a failed sync after the
\* CompleteBarrier of the epoch before; the entry of the epoch is gone and no
\* CompleteBarrier was sent for it
SyncErrorResetsWitness ==
    \E s \in StreamIds :
        /\ responses[s] # <<>>
        /\ Last(responses[s]) = ErrStatus("get error", {}, SyncError)
        /\ \E e \in Epochs :
              /\ meta.stream_of[e] = s
              /\ CompleteBarrier(e) \notin Range(responses[s])
              /\ \A d \in Epochs : (d < e /\ meta.stream_of[d] = s) =>
                                       CompleteBarrier(d) \in Range(responses[s])
        /\ worker.control_stream_handle = [pair |-> FALSE, id |-> s]
        /\ worker.state = <<>>
        /\ requests = <<>>

\* The worker takes a request off the control stream in this step: the
\* branches for completed epochs, failures and actor operations are not
\* ready, and created actors and barrier events leave the requests alone.
TakesRequest ==
    /\ worker.pc = "select"
    /\ ~CompletedEpochReady /\ ~ActorFailureReady /\ ~ActorOpReady
    /\ RequestReady
    /\ Len(requests') < Len(requests)
    /\ Len(worker'.state) >= Len(worker.state)

\* The worker takes an actor operation in this step.
TakesActorOp == actor_op_rx # <<>> /\ actor_op_rx' = Tail(actor_op_rx)

\* The source actor has issued its RegisterSender: register_sender has put
\* the event into the channel of the barrier events.
IssuedRegisterSender(a) == actors[a].st \in {"registered", "registered twice"}

InjectRejectedForCollect ==
    /\ HandlesRequest
    /\ Head(requests).type = "InjectBarrier"
    /\ \/ Head(requests).to_collect \ worker.handles # {}
       \/ Head(requests).to_collect \cap FailedActors(worker) # {}

\* C37: an injection rejected because a to_collect actor is missing or has a
\* recorded failure leaves the managed state and the registered senders as
\* they are, also the senders of the actors the barrier would stop, and no
\* actor gets the barrier.
RejectedInjectionFrame ==
    [][InjectRejectedForCollect =>
         /\ worker'.state = worker.state
         /\ worker'.barrier_senders = worker.barrier_senders
         /\ actors' = actors
         /\ ~worker'.control_stream_handle.pair]_vars

\* the second barrier, which stops the source actor, was rejected with the
\* error of a failed actor: the first barrier is in the managed state as
\* before and the source actor has its sender
RejectedInjectionFrameWitness ==
    \E a \in Sources \cap meta.stopped :
        LET h == worker.control_stream_handle
        IN /\ ~h.pair
           /\ h.id # NoId
           /\ Last(responses[h.id]).type = "Err"
           /\ Last(responses[h.id]).msg = "get error"
           /\ IsActorError(Last(responses[h.id]).err)
           /\ worker.barrier_senders[a] >= 1
           /\ Len(worker.state) = 1
           /\ worker.state[1].epoch = 1
           /\ meta.next_epoch = 3
           /\ meta.stream_of[1] = h.id
           /\ meta.stream_of[2] = h.id

--------------------------------------------------------------------------
(* Claims about duplicates, no-op updates and the two modes *)

\* The RowOpMap after the first n records of the input.
MapAfter(n) ==
    ReconstructRows([k \in AllKeys(chunks, stream_key) |-> Vacant], stream_key,
                    SubSeq(Flatten(chunks), 1, n))

\* Record n + 1 of the input is visible and is a duplicate insert (its key is
\* in state Insert or Update) or a duplicate delete (its key is in state Delete).
DuplicateAt(n) ==
    LET rec == Flatten(chunks)[n + 1]
        e == MapAfter(n)[Project(rec.row, stream_key)]
    IN /\ rec.vis
       /\ IF IsInsert(rec.op) THEN e.kind \in {"Insert", "Update"} ELSE e.kind = "Delete"

DuplicateSteps == {n \in 0..(Len(Flatten(chunks)) - 1) : DuplicateAt(n)}

\* The records of the key k in an output, in order.
RecordsOfKey(cs, k) ==
    SelectSeqIdx(VisibleRecords(cs), LAMBDA r : Project(r.row, stream_key) = k)

\* C34: reconstruct mode tolerates a duplicate insert or delete: it ends with
\* chunks, and at the duplicate the newer row replaces the stored one (Insert
\* on Insert, Delete on Delete), an Insert on an Update keeping the deleted
\* row and replacing only the inserted one; the output of each key is what the
\* final entry of its key emits. In-place mode aborts on exactly these inputs.
DuplicatesToleratedOrAbort ==
    /\ reconstructed # NotRun =>
          /\ reconstructed.tag = "Ok"
          /\ \A n \in DuplicateSteps :
                LET rec == Flatten(chunks)[n + 1]
                    k == Project(rec.row, stream_key)
                    e == MapAfter(n)[k]
                    after == MapAfter(n + 1)
                IN /\ \A k2 \in DOMAIN after : k2 # k => after[k2] = MapAfter(n)[k2]
                   /\ e.kind = "Insert" => after[k] = RowOpInsert(rec.row)
                   /\ e.kind = "Delete" => after[k] = RowOpDelete(rec.row)
                   /\ e.kind = "Update" => after[k] = RowOpUpdate(e.old, rec.row)
          /\ \A k \in AllKeys(chunks, stream_key) :
                RecordsOfKey(reconstructed.chunks, k)
                    = RowOpRecords(MapAfter(Len(Flatten(chunks)))[k])
    /\ compacted # NotRun => (compacted = Panic <=> DuplicateSteps # {})

\* an Insert on a key in state Update whose row differs from the stored one:
\* reconstructed with the newer row in the output, aborted in place
DuplicatesToleratedOrAbortWitness ==
    /\ reconstructed.tag = "Ok"
    /\ compacted = Panic
    /\ \E n \in DuplicateSteps :
          LET rec == Flatten(chunks)[n + 1]
              e == MapAfter(n)[Project(rec.row, stream_key)]
          IN /\ e.kind = "Update"
             /\ e.new # rec.row
             /\ e.old # rec.row
             /\ \E i \in DOMAIN VisibleRecords(reconstructed.chunks) :
                   /\ VisibleRecords(reconstructed.chunks)[i].op = "U+"
                   /\ VisibleRecords(reconstructed.chunks)[i].row = rec.row

\* The entry of each key after the per-key pass over the whole input.
FinalMap == MapAfter(Len(Flatten(chunks)))

\* The positions of the visible records of the key k in a chunk sequence.
VisiblePositionsOfKey(cs, k) ==
    {pos \in Range(Positions(cs)) :
        RecAt(cs, pos).vis /\ Project(RecAt(cs, pos).row, stream_key) = k}

\* C35: a key that ends as a Delete followed by an Insert of an equal row
\* has no visible record in the output of either mode, wherever the two
\* records lie; with different rows the output of the key is the Delete of
\* the old row followed by the Insert of the new one, in place the two input
\* records at their positions.
NoOpUpdateEliminated ==
    \A k \in AllKeys(chunks, stream_key) :
        FinalMap[k].kind = "Update" =>
            LET old == FinalMap[k].old
                new == FinalMap[k].new
            IN /\ reconstructed # NotRun =>
                     RecordsOfKey(reconstructed.chunks, k)
                        = IF old = new THEN <<>>
                          ELSE <<[op |-> "U-", row |-> old, vis |-> TRUE],
                                 [op |-> "U+", row |-> new, vis |-> TRUE]>>
               /\ compacted.tag = "Ok" =>
                     LET got == RecordsOfKey(compacted.chunks, k)
                         at == VisiblePositionsOfKey(compacted.chunks, k)
                     IN IF old = new THEN got = <<>>
                        ELSE /\ Len(got) = 2
                             /\ NormalizeUpdate(got[1].op) = "-" /\ got[1].row = old
                             /\ NormalizeUpdate(got[2].op) = "+" /\ got[2].row = new
                             /\ \A pos \in at : RecAt(chunks, pos).vis
                                                 /\ RecAt(chunks, pos).row
                                                      = RecAt(compacted.chunks, pos).row

\* a Delete in the first chunk and an Insert of the same row in the second,
\* both compactions done, while another key keeps a record
NoOpUpdateEliminatedWitness ==
    /\ compacted.tag = "Ok"
    /\ reconstructed.tag = "Ok"
    /\ \E k \in AllKeys(chunks, stream_key) :
          /\ FinalMap[k].kind = "Update"
          /\ FinalMap[k].old = FinalMap[k].new
          /\ \E i \in DOMAIN chunks[1], j \in DOMAIN chunks[2] :
                /\ chunks[1][i].vis /\ chunks[1][i].op = "-"
                /\ chunks[2][j].vis /\ chunks[2][j].op = "+"
                /\ chunks[1][i].row = chunks[2][j].row
                /\ Project(chunks[1][i].row, stream_key) = k
          /\ RecordsOfKey(compacted.chunks, k) = <<>>
    /\ Cardinality_(compacted.chunks) = 1

\* A record with UpdateDelete / UpdateInsert read as Delete / Insert.
ReadNormalized(r) == [op |-> NormalizeUpdate(r.op), row |-> r.row]

\* How often the record r, read that way, is visible in the chunks cs.
CountRead(cs, r) ==
    Cardinality({i \in DOMAIN VisibleRecords(cs) : ReadNormalized(VisibleRecords(cs)[i]) = r})

\* C38: for a valid change log the in-place output and the reconstructed
\* output hold the same multiset of visible records, update tags read as
\* Delete / Insert.
ModesAgree ==
    (compacted # NotRun /\ reconstructed # NotRun
        /\ ValidChangeLog(chunks, stream_key)) =>
        /\ compacted.tag = "Ok"
        /\ reconstructed.tag = "Ok"
        /\ \A r \in [op : {"+", "-"}, row : Rows] :
              CountRead(compacted.chunks, r) = CountRead(reconstructed.chunks, r)

\* both modes ran on a valid input with an update whose two records are not
\* adjacent in one chunk: the reconstruction tags them as a pair, the
\* in-place compaction leaves them as Delete and Insert
ModesAgreeWitness ==
    /\ ValidChangeLog(chunks, stream_key)
    /\ compacted.tag = "Ok"
    /\ reconstructed.tag = "Ok"
    /\ Cardinality_(compacted.chunks) >= 2
    /\ \A i \in DOMAIN VisibleRecords(compacted.chunks) :
          VisibleRecords(compacted.chunks)[i].op \in {"+", "-"}
    /\ \E i \in DOMAIN VisibleRecords(reconstructed.chunks) :
          VisibleRecords(reconstructed.chunks)[i].op = "U-"


--------------------------------------------------------------------------
(* Claims about the batch group and the delivery of committed rows *)

\* The executor empties the batch group in this step: the batch group held
\* chunks and the new one does not continue it.
FlushesBatchGroup ==
    /\ dml.batch_group # <<>>
    /\ ~dml'.panicked
    /\ \/ Len(dml'.batch_group) < Len(dml.batch_group)
       \/ SubSeq(dml'.batch_group, 1, Len(dml.batch_group)) # dml.batch_group

\* C36: the batch group holds at most chunk_size rows, between two messages
\* and while a turn is suspended, and every turn that flushes it emits its
\* rows as one chunk: the first item of the turn is that chunk, no later item
\* of the turn carries a row of a transaction of the batch group, and the
\* builder is left empty.
DmlBatchGroupBound ==
    /\ [](/\ SumCard(dml.batch_group) <= ChunkSize
          /\ SumCard(Settled(dml).batch_group) <= ChunkSize)
    /\ [][FlushesBatchGroup =>
            LET rows == Range(Flatten(dml.batch_group))
            IN /\ Len(NewOut) >= 1
               /\ NewOut[1] = ChunkMsg(Flatten(dml.batch_group))
               /\ dml'.out = Append(dml.out, NewOut[1])
               /\ \A i \in 2..Len(NewOut) : Range(NewOut[i].rows) \cap rows = {}
               /\ dml'.builder = <<>> /\ TurnEnd.builder = <<>>]_vars

\* a batch group of chunk_size rows of two transactions has gone out as one
\* chunk because a third small transaction did not fit, and that one is the
\* batch group now
DmlBatchGroupBoundWitness ==
    /\ ~dml.panicked
    /\ \E i \in DOMAIN dml.out :
          /\ dml.out[i].type = "chunk"
          /\ Len(dml.out[i].rows) = ChunkSize
          /\ Cardinality(Range(dml.out[i].rows)) >= 2
          /\ 0 \notin Range(dml.out[i].rows)
    /\ dml.batch_group # <<>>
    /\ SumCard(dml.batch_group) < ChunkSize

\* The executor processes the End of the transaction t in this step, and the
\* transaction has not overflowed.
ProcessesEnd(t) ==
    /\ PollsRight(dml, upstream, batch_reader)
    /\ Head(batch_reader) = TxnMsg("End", t, <<>>)
    /\ dml.active_txn_map[t].present
    /\ ~dml.active_txn_map[t].overflow
    /\ batch_reader' = Tail(batch_reader)

\* The executor forwards an upstream barrier in this step.
ForwardsBarrier ==
    /\ upstream # <<>>
    /\ Head(upstream).type = "barrier"
    /\ upstream' = Tail(upstream)

\* The rows of the transaction t that are emitted, and those that wait: in
\* the items a suspended turn has still to yield, or in the batch group.
EmittedRows(st, t) == CountOf(RowsOf(st.out), t)
PendingRows(st, t) ==
    CountOf(RowsOf(st.yielding), t) + CountOf(Flatten(Settled(st).batch_group), t)

\* C39: the End of a transaction that has not overflowed moves every row of
\* its buffer to the output or to the batch group; afterwards no step loses
\* or repeats a row of it; a step that forwards an upstream barrier emits the
\* rows still pending before the barrier, in the turn that takes it; and
\* once a barrier is ready on the upstream of an executor that has not ended
\* (a stream error ends it, and then no barrier arrives at it any more), every
\* row of a committed transaction is eventually emitted.
DmlCommittedDelivered ==
    /\ [][\A t \in TxnIds :
            /\ ProcessesEnd(t) =>
                  /\ EmittedRows(dml, t) + PendingRows(dml, t) = 0
                  /\ EmittedRows(dml', t) + PendingRows(dml', t)
                        = SumCard(dml.active_txn_map[t].vec)
            /\ t \in Range(committed) =>
                  /\ EmittedRows(dml', t) + PendingRows(dml', t)
                        = EmittedRows(dml, t) + PendingRows(dml, t)
                  /\ EmittedRows(dml', t) >= EmittedRows(dml, t)
                  /\ ForwardsBarrier =>
                        /\ Last(TurnEnd.out) = Head(upstream)
                        /\ EmittedRows(TurnEnd, t) = EmittedRows(dml, t) + PendingRows(dml, t)
                        /\ PendingRows(TurnEnd, t) = 0
                        /\ TurnEnd.builder = <<>>]_vars
    /\ \A t \in TxnIds :
          (/\ t \in Range(committed)
           /\ DmlRunning(dml)
           /\ upstream # <<>> /\ Head(upstream).type = "barrier")
             ~> (PendingRows(dml, t) = 0 /\ Last(dml.out).type = "barrier")

\* two small transactions were committed into the batch group and the next
\* barrier took their rows out, in front of it
DmlCommittedDeliveredWitness ==
    /\ Len(committed) >= 2
    /\ dml.batch_group = <<>>
    /\ Len(dml.out) >= 3
    /\ Last(dml.out).type = "barrier"
    /\ dml.out[Len(dml.out) - 1].type = "chunk"
    /\ \A i \in DOMAIN committed :
          /\ HasRowOf(dml.out[Len(dml.out) - 1], committed[i])
          /\ EmittedRows(dml, committed[i]) = 1

--------------------------------------------------------------------------
(* Claims about the compaction scheduler *)

\* How often the group g waits in the channel.
TimesQueued(queue, g) == Cardinality({i \in DOMAIN queue : queue[i] = g})

\* pick_and_assign ends in this step, having sent a task for its group.
SendsTask ==
    /\ sched_loop.pc = "picked"
    /\ sched_loop'.pc = "select"
    /\ sched_log'.status = "Ok"

\* A group enters the default channel only when it is not marked scheduled,
\* and is marked from then on; a group waits in the channel at most once, and
\* only while it is marked.
EnqueuedOnce ==
    /\ [](\A g \in CompactionGroupIds :
             /\ TimesQueued(sched_rx, g) <= 1
             /\ TimesQueued(sched_rx, g) = 1 => g \in scheduled)
    /\ [][\A g \in CompactionGroupIds :
             TimesQueued(sched_rx', g) > TimesQueued(sched_rx, g) =>
                (g \notin scheduled /\ g \in scheduled')]_vars

\* C40: a group is enqueued only if it is not marked scheduled and so waits
\* in the channel at most once; and when pick_and_assign has sent a task for
\* a group, the group is in the channel again at the end of that call.
SchedulingChannel ==
    /\ EnqueuedOnce
    /\ [][SendsTask => TimesQueued(sched_rx', sched_loop.group) = 1]_vars

\* What the scheduler does instead. With deterministic_mode off start panics
\* in its first select!, so no group is ever taken and no task sent. With it
\* on, a call that sent a task reschedules on the mock channel or, with
\* enable_compaction_deterministic, not at all: nothing is enqueued and the
\* group ends unmarked.
RescheduleSkipped ==
    /\ EnqueuedOnce
    /\ [](~sched_loop.deterministic_mode =>
             /\ sched_loop.pc \in {"select", "panicked"}
             /\ sched_log = NoSchedLog)
    /\ [][SendsTask =>
            /\ sched_loop.group \in scheduled
            /\ sched_log'.resched =
                  (IF sched_loop.enable_compaction_deterministic THEN "none" ELSE "Ok(true)")
            /\ sched_rx' = sched_rx
            /\ scheduled' = scheduled \ {sched_loop.group}]_vars

RescheduleSkippedWitness ==
    /\ sched_loop.pc = "select"
    /\ ~sched_loop.enable_compaction_deterministic
    /\ sched_log.status = "Ok"
    /\ sched_log.resched = "Ok(true)"
    /\ sched_rx = <<>>
    /\ scheduled = {}
    /\ \E g \in CompactionGroupIds : sched_log.sent[g] = 1

==========================================================================
